---- MODULE Spec2Model ----
(***************************************************************************)
(* Reconciliation engine of the Twingate plugin for Caddy: ResourceSyncer  *)
(* (sync.go) driving the remote inventory through TwingateClient           *)
(* (graphql_client.go).  The remote inventory is the environment: it keeps *)
(* networks and resources in listing order, assigns IDs, and answers every *)
(* call either with success or with a failure.                             *)
(***************************************************************************)
EXTENDS Integers, Sequences, FiniteSets, TLC

(***************************************************************************)
(* Text.  A string whose characters matter (an address) is a sequence of   *)
(* one-character strings; names and aliases are only compared for equality *)
(* and stay TLA+ strings.                                                  *)
(***************************************************************************)
DecVal ==
  ("0" :> 0) @@ ("1" :> 1) @@ ("2" :> 2) @@ ("3" :> 3) @@ ("4" :> 4) @@
  ("5" :> 5) @@ ("6" :> 6) @@ ("7" :> 7) @@ ("8" :> 8) @@ ("9" :> 9)

HexVal ==
  DecVal @@
  ("a" :> 10) @@ ("b" :> 11) @@ ("c" :> 12) @@ ("d" :> 13) @@ ("e" :> 14) @@
  ("f" :> 15) @@
  ("A" :> 10) @@ ("B" :> 11) @@ ("C" :> 12) @@ ("D" :> 13) @@ ("E" :> 14) @@
  ("F" :> 15)

\* The nil net.IP (a nil slice has length 0).
NilIP == <<>>

Contains(s, c) == \E k \in 1..Len(s) : s[k] = c

\* Index of the first occurrence of c in s, 0 when there is none.
IndexOf(s, c) ==
  IF Contains(s, c) THEN CHOOSE k \in 1..Len(s) : s[k] = c /\ \A j \in 1..(k - 1) : s[j] # c
  ELSE 0

RECURSIVE Split(_, _)
Split(s, sep) ==
  LET k == IndexOf(s, sep) IN
  IF k = 0 THEN <<s>>
  ELSE <<SubSeq(s, 1, k - 1)>> \o Split(SubSeq(s, k + 1, Len(s)), sep)

RECURSIVE DecAcc(_)
DecAcc(f) == IF Len(f) = 0 THEN 0 ELSE DecAcc(SubSeq(f, 1, Len(f) - 1)) * 10 + DecVal[f[Len(f)]]

\* One dotted-decimal field: digits only, no leading zero, at most 255.
IPv4FieldOK(f) ==
  /\ Len(f) >= 1
  /\ \A k \in 1..Len(f) : f[k] \in DOMAIN DecVal
  /\ (Len(f) > 1 => f[1] # "0")
  /\ Len(f) <= 3
  /\ DecAcc(f) <= 255

\* netip.parseIPv4Fields: exactly four fields; the four bytes, or NilIP.
parseIPv4Fields(s) ==
  LET fields == Split(s, ".") IN
  IF Len(fields) = 4 /\ \A k \in 1..4 : IPv4FieldOK(fields[k])
  THEN [k \in 1..4 |-> DecAcc(fields[k])]
  ELSE NilIP

\* Number of leading hexadecimal digits of s.
RECURSIVE HexRun(_)
HexRun(s) ==
  IF Len(s) > 0 /\ s[1] \in DOMAIN HexVal THEN 1 + HexRun(Tail(s)) ELSE 0

RECURSIVE HexAcc(_)
HexAcc(f) == IF Len(f) = 0 THEN 0 ELSE HexAcc(SubSeq(f, 1, Len(f) - 1)) * 16 + HexVal[f[Len(f)]]

V6Fail == [ok |-> FALSE, s |-> <<>>, ip |-> <<>>, ellipsis |-> -1]

\* The group loop of netip.parseIPv6: ip holds the bytes parsed so far
\* (the code's index i is Len(ip)), ellipsis the byte offset of "::" or -1.
RECURSIVE V6Loop(_, _, _)
V6Loop(s, ip, ellipsis) ==
  IF Len(ip) >= 16 THEN [ok |-> TRUE, s |-> s, ip |-> ip, ellipsis |-> ellipsis]
  ELSE
    LET off == HexRun(s) IN
    IF off > 4 \/ off = 0 THEN V6Fail
    ELSE IF off < Len(s) /\ s[off + 1] = "."
    THEN
      IF (ellipsis < 0 /\ Len(ip) # 12) \/ Len(ip) + 4 > 16 THEN V6Fail
      ELSE LET v4 == parseIPv4Fields(s) IN
           IF v4 = NilIP THEN V6Fail
           ELSE [ok |-> TRUE, s |-> <<>>, ip |-> ip \o v4, ellipsis |-> ellipsis]
    ELSE
      LET acc == HexAcc(SubSeq(s, 1, off))
          ip2 == ip \o <<acc \div 256, acc % 256>>
          s2  == SubSeq(s, off + 1, Len(s))
      IN
      IF Len(s2) = 0 THEN [ok |-> TRUE, s |-> <<>>, ip |-> ip2, ellipsis |-> ellipsis]
      ELSE IF s2[1] # ":" \/ Len(s2) = 1 THEN V6Fail
      ELSE
        LET s3 == Tail(s2) IN
        IF s3[1] = ":"
        THEN
          IF ellipsis >= 0 THEN V6Fail
          ELSE IF Len(s3) = 1
               THEN [ok |-> TRUE, s |-> <<>>, ip |-> ip2, ellipsis |-> Len(ip2)]
               ELSE V6Loop(Tail(s3), ip2, Len(ip2))
        ELSE V6Loop(s3, ip2, ellipsis)

Zeros(n) == [k \in 1..n |-> 0]

\* netip.parseIPv6 for a string without a zone: the 16 bytes, or NilIP.
parseIPv6(s) ==
  LET lead == Len(s) >= 2 /\ s[1] = ":" /\ s[2] = ":"
      rest == IF lead THEN SubSeq(s, 3, Len(s)) ELSE s
      e0   == IF lead THEN 0 ELSE -1
  IN
  IF lead /\ Len(rest) = 0 THEN Zeros(16)
  ELSE
    LET r == V6Loop(rest, <<>>, e0) IN
    IF ~r.ok \/ Len(r.s) # 0 THEN NilIP
    ELSE IF Len(r.ip) < 16
    THEN
      IF r.ellipsis < 0 THEN NilIP
      ELSE SubSeq(r.ip, 1, r.ellipsis) \o Zeros(16 - Len(r.ip))
             \o SubSeq(r.ip, r.ellipsis + 1, Len(r.ip))
    ELSE IF r.ellipsis >= 0 THEN NilIP
    ELSE r.ip

\* The 12-byte prefix of an IPv4 address in 16-byte form.
v4InV6Prefix == Zeros(10) \o <<255, 255>>

\* net.ParseIP: the first of '.', ':' and '%' decides the syntax; a zone is
\* refused; the result always has the 16-byte form.
ParseIP(s) ==
  LET marks == {k \in 1..Len(s) : s[k] \in {".", ":", "%"}} IN
  IF marks = {} THEN NilIP
  ELSE
    LET first == s[CHOOSE k \in marks : \A j \in marks : k <= j] IN
    IF first = "."
    THEN LET v4 == parseIPv4Fields(s) IN
         IF v4 = NilIP THEN NilIP ELSE v4InV6Prefix \o v4
    ELSE IF first = ":" /\ ~Contains(s, "%") THEN parseIPv6(s)
    ELSE NilIP

\* net.IP.To4: the 4-byte form of an IPv4 address, NilIP for any other.
To4(ip) ==
  IF Len(ip) = 4 THEN ip
  ELSE IF Len(ip) = 16 /\ SubSeq(ip, 1, 12) = v4InV6Prefix THEN SubSeq(ip, 13, 16)
  ELSE NilIP

(***************************************************************************)
(* Values                                                                  *)
(***************************************************************************)
DefaultRemoteNetworkName == "Caddy-Managed"

\* "first": 100 of GetRemoteNetworks and of GetResources.
NetworksPageSize == 100
ResourcesPageSize == 100

\* A nil *string alias, the empty ID string, a nil *Resource.
NoAlias == "<nil>"
EmptyID == 0
NilResource == [id |-> EmptyID, name |-> "", address |-> <<>>, alias |-> NoAlias, net |-> EmptyID]

HostA == "api.example.com"
HostB == "app.example.com"
HostC == "db.example.com"
HostW == "*.example.com"
StaleName == "stale.example.com"

Addr4 == <<"1", "0", ".", "0", ".", "0", ".", "1">>
Addr4Old == <<"1", "0", ".", "0", ".", "0", ".", "2">>
Addr6 == <<"2", "0", "0", "1", ":", "d", "b", "8", ":", ":", "1">>
AddrMapped == <<":", ":", "f", "f", "f", "f", ":", "1", "0", ".", "0", ".", "0", ".", "1">>
AddrNotIP == <<"c", "a", "d", "d", "y">>
AddrOctet == <<"1", "0", ".", "0", ".", "0", ".", "2", "5", "6">>
AddrEmpty == <<>>

Addresses == {Addr4, Addr4Old, Addr6, AddrMapped, AddrNotIP, AddrOctet, AddrEmpty}

\* Bounds of the model.
MaxMappings == 2
MaxInitResources == 2
MaxRuns == 2
MaxFaults == 1

Syncers == {1}

Min(a, b) == IF a < b THEN a ELSE b

RECURSIVE SeqsUpTo(_, _)
SeqsUpTo(S, n) ==
  IF n = 0 THEN {<<>>}
  ELSE LET shorter == SeqsUpTo(S, n - 1) IN
       shorter \cup {Append(q, e) : q \in {t \in shorter : Len(t) = n - 1}, e \in S}

\* ResourceMapping values: the two shapes route discovery produces (alias
\* equal to the host, or absent for a wildcard host) and mappings that
\* validation has to judge.
MappingShapes ==
  { [Name |-> HostA, Alias |-> HostA, Address |-> Addr4],
    [Name |-> HostW, Alias |-> NoAlias, Address |-> Addr4],
    [Name |-> HostB, Alias |-> HostB, Address |-> Addr6],
    [Name |-> HostC, Alias |-> HostC, Address |-> AddrMapped] }

\* Mapping lists with pairwise distinct names, as DiscoverEndpoints returns
\* them (one endpoint per host).
MappingLists ==
  {q \in SeqsUpTo(MappingShapes, MaxMappings) :
     \A j, k \in 1..Len(q) : j # k => q[j].Name # q[k].Name}

NilCleanupConfig == [present |-> FALSE, Enabled |-> FALSE, DryRun |-> FALSE]

CleanupConfigs ==
  {NilCleanupConfig} \cup
  {[present |-> TRUE, Enabled |-> e, DryRun |-> d] : e, d \in BOOLEAN}

\* The inventory the model starts from: network 1 is somebody else's,
\* network 2 is the default target.
OtherNetworkID == 1
ManagedNetworkID == 2
FirstFreeID == 3

InitNetworks ==
  << [id |-> OtherNetworkID, name |-> "Other"],
     [id |-> ManagedNetworkID, name |-> DefaultRemoteNetworkName] >>

\* IDs are assigned in listing order.
WithIDs(q) ==
  [k \in 1..Len(q) |->
     [id |-> FirstFreeID + k - 1, name |-> q[k].name, address |-> q[k].address,
      alias |-> q[k].alias, net |-> q[k].net]]

\* Resources found before the first sync: one that the mapping of HostA
\* matches but with an outdated address, one that carries the alias HostA
\* under a name no mapping has, and one of the other network.
InitResourceShapes ==
  { [name |-> HostA, address |-> Addr4Old, alias |-> HostA, net |-> ManagedNetworkID],
    [name |-> StaleName, address |-> Addr4, alias |-> HostA, net |-> ManagedNetworkID],
    [name |-> StaleName, address |-> Addr4, alias |-> NoAlias, net |-> OtherNetworkID] }

InitInventories == {WithIDs(q) : q \in SeqsUpTo(InitResourceShapes, MaxInitResources)}

\* A resource that has the name of the wildcard mapping and carries an
\* alias, which that mapping does not.
AliasedWildcardInventory ==
  WithIDs(<< [name |-> HostW, address |-> Addr4, alias |-> HostB, net |-> ManagedNetworkID] >>)

\* A resource that has the name of the mapping of HostA and no alias, as
\* one created by hand has.
UnaliasedInventory ==
  WithIDs(<< [name |-> HostA, address |-> Addr4, alias |-> NoAlias, net |-> ManagedNetworkID] >>)

(***************************************************************************)
(* Routing configuration handed to the RouteDiscoverer                     *)
(***************************************************************************)
\* The characters of the host and server names the model uses.
Text(name) ==
  CASE name = "api.example.com" ->
         <<"a", "p", "i", ".", "e", "x", "a", "m", "p", "l", "e", ".", "c", "o", "m">>
    [] name = "app.example.com" ->
         <<"a", "p", "p", ".", "e", "x", "a", "m", "p", "l", "e", ".", "c", "o", "m">>
    [] name = "db.example.com" ->
         <<"d", "b", ".", "e", "x", "a", "m", "p", "l", "e", ".", "c", "o", "m">>
    [] name = "*.example.com" ->
         <<"*", ".", "e", "x", "a", "m", "p", "l", "e", ".", "c", "o", "m">>
    [] name = "localhost" -> <<"l", "o", "c", "a", "l", "h", "o", "s", "t">>
    [] name = "srv0" -> <<"s", "r", "v", "0">>
    [] name = "edge" -> <<"e", "d", "g", "e">>
    [] name = "" -> <<>>

PathV1 == <<"/", "v", "1", "/", "*">>
PathApiStar == <<"/", "a", "p", "i", "/", "*">>
PathAdminStar == <<"/", "a", "d", "m", "i", "n", "/", "*">>
PathApi == <<"/", "a", "p", "i">>
PathRoot == <<"/">>

\* Matchers of a route as the configuration writes them: caddyhttp.MatchHost
\* is a list of hosts, caddyhttp.MatchPath a list of patterns.
MatchHost(hosts) == [matcher |-> "host", values |-> hosts]
MatchPath(paths) == [matcher |-> "path", values |-> paths]

\* One matcher set for the matchers a route has, none for a route without.
MatcherSetsOf(hosts, paths) ==
  LET set == (IF hosts = <<>> THEN <<>> ELSE <<MatchHost(hosts)>>)
               \o (IF paths = <<>> THEN <<>> ELSE <<MatchPath(paths)>>)
  IN IF set = <<>> THEN <<>> ELSE <<set>>

\* Handlers as the configuration writes them: objects tagged by "handler".
ReverseProxyJSON == [handler |-> "reverse_proxy", routes |-> <<>>]
FileServerJSON == [handler |-> "file_server", routes |-> <<>>]
SubrouteJSON(routes) == [handler |-> "subroute", routes |-> routes]

\* A route as the configuration writes it: "match" and "handle".
RouteJSON(hosts, paths, handlers) ==
  [match |-> MatcherSetsOf(hosts, paths), handle |-> handlers]

\* Bound of the model: routes in the list of a subroute.
MaxSubroutes == 2

\* Routes that end the chain: a proxy leaf under a path, under a host and a
\* path, behind an opaque handler under a wildcard host, and a route with
\* an opaque handler alone.
LeafRoutes ==
  { RouteJSON(<<>>, <<PathV1>>, <<ReverseProxyJSON>>),
    RouteJSON(<<HostB>>, <<PathApi, PathAdminStar>>, <<ReverseProxyJSON>>),
    RouteJSON(<<HostW>>, <<PathRoot>>, <<FileServerJSON, ReverseProxyJSON>>),
    RouteJSON(<<HostC>>, <<>>, <<FileServerJSON>>) }

SubrouteLists == SeqsUpTo(LeafRoutes, MaxSubroutes) \ {<<>>}

\* Routes that hold a subroute, with a host matcher of one host, of two
\* hosts, or none.
SubrouteRoutes ==
  {RouteJSON(hosts, <<>>, <<SubrouteJSON(routes)>>) :
     hosts \in {<<>>, <<HostA>>, <<HostA, HostB>>}, routes \in SubrouteLists}

\* Servers of the HTTP app: one server, under a default name or a name of
\* its own, with one route; or two servers.
ServerSets ==
  {[n \in {name} |-> <<route>>] :
     name \in {"", "srv0", "edge"}, route \in SubrouteRoutes \cup LeafRoutes}
  \cup
  {[n \in {"srv0", "edge"} |-> IF n = "srv0" THEN <<first>> ELSE <<second>>] :
     first \in SubrouteRoutes, second \in LeafRoutes}

\* The routing tree of the README: api.example.com with a proxy under
\* /v1/*, app.example.com with proxies under /api/* and /admin/*.
ExampleServers ==
  [n \in {"srv0"} |->
     << RouteJSON(<<HostA>>, <<>>,
          <<SubrouteJSON(<< RouteJSON(<<>>, <<PathV1>>, <<ReverseProxyJSON>>) >>)>>),
        RouteJSON(<<HostB>>, <<>>,
          <<SubrouteJSON(<< RouteJSON(<<>>, <<PathApiStar>>, <<ReverseProxyJSON>>),
                            RouteJSON(<<>>, <<PathAdminStar>>, <<ReverseProxyJSON>>) >>)>>) >>]

\* Bound of the model: characters of a path pattern drawn from PathAlphabet.
MaxPathLen == 3

\* Path patterns of every form normalizePath tells apart: with and without
\* the wildcard and the slash, at any place.
PathAlphabet == {"/", "*", "a"}
PathPatterns ==
  SeqsUpTo(PathAlphabet, MaxPathLen) \cup {PathV1, PathApiStar, PathAdminStar, PathApi, PathRoot}

\* A server with one route: a host, one path pattern, a proxy leaf.
PathServers ==
  {[n \in {"srv0"} |-> << RouteJSON(<<HostA>>, <<path>>, <<ReverseProxyJSON>>) >>] :
     path \in PathPatterns}

\* Bound of the model: invocations of DiscoverEndpoints on one routing tree.
MaxInvocations == 2

\* A RouteDiscoverer before DiscoverEndpoints is called; `previous` keeps
\* what the invocation before the current one returned.
IdleDiscoverer ==
  [pc |-> "idle", invocation |-> 0, pending |-> {}, endpointMap |-> {}, endpoints |-> <<>>,
   previous |-> <<>>]

(***************************************************************************)
(* TwingateApp instances, the callers of the syncer, the sync summary      *)
(***************************************************************************)
\* A TwingateApp whose syncMutex nobody holds (0) and that has completed no
\* sync.
IdleApp == [syncMutex |-> 0, lastSync |-> 0]

\* SyncResources called with context.Background() and outside performSync,
\* as the tests of the syncer call it.
DirectCall == [pc |-> "direct", kind |-> "SyncResources", app |-> 1, ctx |-> "background"]

\* Provision of an instance, before it calls performSync with
\* context.Background().
ProvisionOf(app) == [pc |-> "start", kind |-> "Provision", app |-> app, ctx |-> "background"]

\* TriggerSync on an instance, before it calls performSync with a context
\* that has a deadline.
TriggerSyncOf(app) == [pc |-> "start", kind |-> "TriggerSync", app |-> app, ctx |-> "none"]

\* GetSyncSummary before it is called.
IdleSummary ==
  [pc |-> "idle", networkName |-> "", network |-> 0, i |-> 1, TotalMappings |-> 0,
   RemoteNetworkAction |-> "", RemoteNetworkName |-> "", RemoteNetworkID |-> 0,
   ResourcesToCreate |-> 0, ResourcesToUpdate |-> 0, result |-> "none", calls |-> <<>>]

VARIABLES
  networks,          \* remote networks, in listing order
  netPad,            \* networks of other names the server lists before them
  resources,         \* remote resources, in listing order
  resPad,            \* resources of other networks the server lists before them
  nextId,            \* next ID the inventory assigns
  faults,            \* remote calls that have failed so far
  mappings,          \* []ResourceMapping handed to SyncResources
  remoteNetworkName, \* TwingateApp.RemoteNetwork
  cleanupConfig,     \* TwingateApp.ResourceCleanup
  sy,                \* per syncer: position and locals of SyncResources
  servers,           \* httpApp.Servers as configured: name -> routes
  provisioned,       \* whether the routes hold decoded handlers
  caddyAddress,      \* RouteDiscoverer.caddyAddress
  rd,                \* position and locals of DiscoverEndpoints
  apps,              \* per TwingateApp instance: syncMutex and lastSync
  ps,                \* per caller of the syncer: position in performSync, its context
  summary            \* position and locals of GetSyncSummary

vars == <<networks, netPad, resources, resPad, nextId, faults,
          mappings, remoteNetworkName, cleanupConfig, sy,
          servers, provisioned, caddyAddress, rd, apps, ps, summary>>

syncing == <<networks, netPad, resources, resPad, nextId, faults,
             remoteNetworkName, cleanupConfig, sy>>
discovery == <<servers, provisioned, caddyAddress, rd>>
lifecycle == <<apps, ps>>

inventory == <<networks, netPad, resources, resPad, nextId>>
config == <<mappings, remoteNetworkName, cleanupConfig>>

IdleSyncer ==
  [pc |-> "idle", run |-> 0, prevResult |-> "none", result |-> "none",
   networkName |-> "", networkID |-> EmptyID, i |-> 1, existing |-> NilResource,
   success |-> 0, errors |-> 0, stale |-> <<>>, k |-> 1,
   deleted |-> 0, deleteErrors |-> 0, calls |-> <<>>]

\* The configuration is fixed for the life of a TwingateApp; the inventory
\* is one of five situations: the default network with resources in it
\* (listed first, or behind a page of other resources), the default network
\* holding the aliased resource of the wildcard name or the resource of
\* the name of HostA without an alias, the default network
\* behind a page of other networks, or a configured network that does not
\* exist yet.
Init ==
  /\ networks = InitNetworks
  /\ faults = 0
  /\ mappings \in MappingLists
  /\ cleanupConfig \in CleanupConfigs
  /\ sy = [p \in Syncers |-> IdleSyncer]
  /\ \/ /\ remoteNetworkName = ""
        /\ netPad = 0
        /\ resPad \in {0, ResourcesPageSize - 1}
        /\ resources \in InitInventories
     \/ /\ remoteNetworkName = ""
        /\ netPad = 0
        /\ resPad = 0
        /\ resources \in {AliasedWildcardInventory, UnaliasedInventory}
     \/ /\ remoteNetworkName = ""
        /\ netPad = NetworksPageSize - 1
        /\ resPad = 0
        /\ resources = <<>>
     \/ /\ remoteNetworkName = "Caddy-Resources"
        /\ netPad = 0
        /\ resPad = 0
        /\ resources = <<>>
  /\ nextId = FirstFreeID + Len(resources)
  /\ servers = ExampleServers
  /\ provisioned = TRUE
  /\ caddyAddress = Addr4
  /\ rd = IdleDiscoverer
  /\ apps = <<IdleApp>>
  /\ ps = [p \in Syncers |-> DirectCall]
  /\ summary = IdleSummary

(***************************************************************************)
(* TwingateClient: what one call returns from the current inventory        *)
(***************************************************************************)
\* The single page a list query returns: the first `size` entries.
FirstPage(list, pad, size) ==
  IF pad >= size THEN <<>> ELSE SubSeq(list, 1, Min(Len(list), size - pad))

GetRemoteNetworks == FirstPage(networks, netPad, NetworksPageSize)

\* ID of the first listed network of that name, EmptyID when none is listed.
GetRemoteNetworkByName(name) ==
  LET page == GetRemoteNetworks
      hits == {j \in 1..Len(page) : page[j].name = name}
  IN IF hits = {} THEN EmptyID ELSE page[CHOOSE j \in hits : \A h \in hits : j <= h].id

GetResources(remoteNetworkID) ==
  SelectSeq(FirstPage(resources, resPad, ResourcesPageSize),
            LAMBDA r : remoteNetworkID = EmptyID \/ r.net = remoteNetworkID)

FirstMatch(list, Match(_)) ==
  LET hits == {j \in 1..Len(list) : Match(list[j])} IN
  IF hits = {} THEN NilResource ELSE list[CHOOSE j \in hits : \A h \in hits : j <= h]

GetResourceByAlias(alias, remoteNetworkID) ==
  FirstMatch(GetResources(remoteNetworkID), LAMBDA r : r.alias # NoAlias /\ r.alias = alias)

GetResourceByName(name, remoteNetworkID) ==
  FirstMatch(GetResources(remoteNetworkID), LAMBDA r : r.name = name)

\* A remote call either succeeds or fails (transport error or a not-ok
\* answer); at most MaxFaults calls fail on their own, and every call made
\* with a context that is done, or for a resource that is gone, fails.
OutcomeFor(ctx, present, ok) ==
  /\ ok \in BOOLEAN
  /\ (ctx = "expired" \/ ~present) => ~ok
  /\ ok \/ ctx = "expired" \/ ~present \/ faults < MaxFaults
  /\ faults' = IF ok \/ ctx = "expired" \/ ~present THEN faults ELSE faults + 1

\* A remote call that goes through whatever has become of its context.
Outcome_IgnoresContext(ctx, ok) == OutcomeFor("background", TRUE, ok)

Outcome(ctx, ok) == OutcomeFor(ctx, TRUE, ok)

\* One entry of the history of a run: a remote call (the mapping index it
\* was made for, 0 when for none; the resource ID it names, EmptyID when
\* none; whether it succeeded), or the rejection of a mapping by
\* validation, which makes no call.
Call(op, m, id, ok) == [op |-> op, m |-> m, id |-> id, ok |-> ok]

(***************************************************************************)
(* ResourceSyncer                                                          *)
(***************************************************************************)
\* validateMapping without the ip.To4() test.
validateMapping_AcceptsIPv6(mapping) ==
  IF mapping.Name = "" THEN "resource name cannot be empty"
  ELSE IF mapping.Address = <<>> THEN "resource address cannot be empty"
  ELSE IF ParseIP(mapping.Address) = NilIP THEN "not a valid IP address"
  ELSE "nil"

\* validateMapping: "nil" or the reason of the error it returns.
validateMapping(mapping) ==
  IF mapping.Name = "" THEN "resource name cannot be empty"
  ELSE IF mapping.Address = <<>> THEN "resource address cannot be empty"
  ELSE IF ParseIP(mapping.Address) = NilIP THEN "not a valid IP address"
  ELSE IF To4(ParseIP(mapping.Address)) = NilIP THEN "is IPv6"
  ELSE "nil"

\* SyncResources testing only cleanupConfig != nil.
CleanupEnabled_IgnoresEnabled == cleanupConfig.present

\* cleanupConfig != nil && cleanupConfig.Enabled
CleanupEnabled == cleanupConfig.present /\ cleanupConfig.Enabled

\* SyncResources returning the outcome of the upsert pass alone.
Aggregate_UpsertErrorsOnly(s) ==
  [s EXCEPT !.pc = "done", !.result = IF s.errors > 0 THEN "error" ELSE "nil"]

\* SyncResources after both passes: the aggregate result.
Aggregate(s) ==
  [s EXCEPT !.pc = "done",
            !.result = IF s.errors + s.deleteErrors > 0 THEN "error" ELSE "nil"]

\* upsertResources moving to the next mapping: the loop goes on, or returns
\* into the cleanup pass of SyncResources.
NextMapping(s) ==
  LET t == [s EXCEPT !.i = s.i + 1, !.existing = NilResource] IN
  IF t.i <= Len(mappings) THEN [t EXCEPT !.pc = "upsert"]
  ELSE IF CleanupEnabled THEN [t EXCEPT !.pc = "cleanup"]
  ELSE Aggregate(t)

\* upsertResources returning at the first failed mapping.
UpsertError_Aborts(s) ==
  [s EXCEPT !.pc = "done", !.result = "error", !.errors = s.errors + 1]

UpsertError(s) == NextMapping([s EXCEPT !.errors = s.errors + 1])
UpsertSuccess(s) == NextMapping([s EXCEPT !.success = s.success + 1])

Logged(s, c) == [s EXCEPT !.calls = Append(s.calls, c)]

\* The configured name taken as it is, empty or not.
NetworkNameOf_NoDefault(name) == name

\* The network name SyncResources and GetSyncSummary use.
NetworkNameOf(name) == IF name = "" THEN DefaultRemoteNetworkName ELSE name

\* SyncResources without the early return for no mappings.
SyncResourcesEntry_NoEarlyReturn(s) ==
  [s EXCEPT !.pc = "resolve",
            !.networkName = IF remoteNetworkName = "" THEN DefaultRemoteNetworkName
                            ELSE remoteNetworkName]

\* SyncResources, up to its first remote call: nothing to do for no
\* mappings.
SyncResourcesEntry(s) ==
  IF Len(mappings) = 0 THEN [s EXCEPT !.pc = "done", !.result = "nil"]
  ELSE [s EXCEPT !.pc = "resolve", !.networkName = NetworkNameOf(remoteNetworkName)]

SyncResources(p) ==
  /\ \/ ps[p].pc = "direct" /\ sy[p].pc \in {"idle", "done"}
     \/ ps[p].pc = "locked" /\ sy[p].pc = "idle"
  /\ sy[p].run < MaxRuns
  /\ sy' = [sy EXCEPT ![p] =
              SyncResourcesEntry([IdleSyncer EXCEPT !.run = sy[p].run + 1,
                                                    !.prevResult = sy[p].result])]
  /\ UNCHANGED <<inventory, faults, config>>
  /\ UNCHANGED <<discovery, lifecycle, summary>>

\* SyncResources going on after an error of GetOrCreateRemoteNetwork.
ResolutionFailed_GoesOn(s) == [s EXCEPT !.pc = "upsert", !.i = 1]

\* SyncResources when GetOrCreateRemoteNetwork returns an error.
ResolutionFailed(s) == [s EXCEPT !.pc = "done", !.result = "error"]

\* SyncResources when GetOrCreateRemoteNetwork returns the network: the
\* upsert pass starts at the first mapping.
Resolved(s, id) == NextMapping([s EXCEPT !.networkID = id, !.i = 0])

\* GetOrCreateRemoteNetwork, first call: GetRemoteNetworkByName.
GetOrCreateRemoteNetwork(p) ==
  /\ sy[p].pc = "resolve"
  /\ \E ok \in BOOLEAN :
       /\ Outcome(ps[p].ctx, ok)
       /\ LET s == Logged(sy[p], Call("GetRemoteNetworks", 0, EmptyID, ok))
              found == GetRemoteNetworkByName(s.networkName)
          IN sy' = [sy EXCEPT ![p] =
                      IF ~ok THEN ResolutionFailed(s)
                      ELSE IF found # EmptyID THEN Resolved(s, found)
                      ELSE [s EXCEPT !.pc = "createNetwork"]]
  /\ UNCHANGED <<inventory, config>>
  /\ UNCHANGED <<discovery, lifecycle, summary>>

\* GetOrCreateRemoteNetwork, second call: CreateRemoteNetwork.
CreateRemoteNetwork(p) ==
  /\ sy[p].pc = "createNetwork"
  /\ \E ok \in BOOLEAN :
       /\ Outcome(ps[p].ctx, ok)
       /\ LET s == Logged(sy[p], Call("CreateRemoteNetwork", 0, EmptyID, ok)) IN
          IF ok
          THEN /\ networks' = Append(networks, [id |-> nextId, name |-> s.networkName])
               /\ nextId' = nextId + 1
               /\ sy' = [sy EXCEPT ![p] = Resolved(s, nextId)]
          ELSE /\ sy' = [sy EXCEPT ![p] = ResolutionFailed(s)]
               /\ UNCHANGED <<networks, nextId>>
  /\ UNCHANGED <<netPad, resources, resPad, config>>
  /\ UNCHANGED <<discovery, lifecycle, summary>>

\* The lookup of syncSingleResource: by alias when the mapping has one, by
\* name in the listing otherwise.
LookupExisting(mapping, remoteNetworkID) ==
  IF mapping.Alias # NoAlias
  THEN GetResourceByAlias(mapping.Alias, remoteNetworkID)
  ELSE GetResourceByName(mapping.Name, remoteNetworkID)

\* syncSingleResource for mappings[i], up to the lookup of the existing
\* resource.
syncSingleResource(p) ==
  /\ sy[p].pc = "upsert"
  /\ LET s == sy[p]
         mapping == mappings[s.i]
     IN
     IF validateMapping(mapping) # "nil"
     THEN /\ sy' = [sy EXCEPT ![p] =
                      UpsertError(Logged(s, Call("invalid mapping", s.i, EmptyID, FALSE)))]
          /\ UNCHANGED faults
     ELSE \E ok \in BOOLEAN :
            /\ Outcome(ps[p].ctx, ok)
            /\ LET t == Logged(s, Call("GetResources", s.i, EmptyID, ok))
                   existingResource == LookupExisting(mapping, s.networkID)
               IN sy' = [sy EXCEPT ![p] =
                           IF ~ok THEN UpsertError(t)
                           ELSE IF existingResource # NilResource
                           THEN [t EXCEPT !.pc = "update", !.existing = existingResource]
                           ELSE [t EXCEPT !.pc = "create"]]
  /\ UNCHANGED <<inventory, config>>
  /\ UNCHANGED <<discovery, lifecycle, summary>>

AliasOrEmpty(alias) == IF alias # NoAlias THEN alias ELSE ""

\* The ResourceCreateInput createNewResource builds; a nil alias is sent as
\* the empty string.
CreateInput(mapping, remoteNetworkID) ==
  [Name |-> mapping.Name, Address |-> mapping.Address, RemoteNetworkID |-> remoteNetworkID,
   Alias |-> AliasOrEmpty(mapping.Alias)]

createNewResource(p) ==
  /\ sy[p].pc = "create"
  /\ \E ok \in BOOLEAN :
       /\ Outcome(ps[p].ctx, ok)
       /\ LET s == sy[p]
              input == CreateInput(mappings[s.i], s.networkID)
              t == Logged(s, Call("CreateResource", s.i, EmptyID, ok))
          IN
          IF ok
          THEN /\ resources' = Append(resources,
                                 [id |-> nextId, name |-> input.Name, address |-> input.Address,
                                  alias |-> input.Alias, net |-> input.RemoteNetworkID])
               /\ nextId' = nextId + 1
               /\ sy' = [sy EXCEPT ![p] = UpsertSuccess(t)]
          ELSE /\ sy' = [sy EXCEPT ![p] = UpsertError(t)]
               /\ UNCHANGED <<resources, nextId>>
  /\ UNCHANGED <<networks, netPad, resPad, config>>
  /\ UNCHANGED <<discovery, lifecycle, summary>>

\* Whether updateExistingResource finds a field to change.
needsUpdate(mapping, existing) ==
  \/ existing.name # mapping.Name
  \/ existing.address # mapping.Address
  \/ AliasOrEmpty(existing.alias) # AliasOrEmpty(mapping.Alias)

\* A ResourceUpdateInput holding only the fields that differ: UpdateResource
\* sends "" for a field left nil.
UpdateInput_ChangedFieldsOnly(mapping, existing) ==
  [ID |-> existing.id,
   Name |-> IF existing.name # mapping.Name THEN mapping.Name ELSE "",
   Address |-> IF existing.address # mapping.Address THEN mapping.Address ELSE <<>>,
   Alias |-> IF AliasOrEmpty(existing.alias) # AliasOrEmpty(mapping.Alias)
             THEN mapping.Alias ELSE NoAlias]

\* The ResourceUpdateInput updateExistingResource builds: the existing
\* values, replaced where the mapping differs.
UpdateInput(mapping, existing) ==
  [ID |-> existing.id,
   Name |-> IF existing.name # mapping.Name THEN mapping.Name ELSE existing.name,
   Address |-> IF existing.address # mapping.Address THEN mapping.Address ELSE existing.address,
   Alias |-> IF AliasOrEmpty(existing.alias) # AliasOrEmpty(mapping.Alias)
             THEN mapping.Alias ELSE existing.alias]

\* The inventory after UpdateResource: the three variables are always sent,
\* a nil alias as the empty string.
UpdateResource(input) ==
  [j \in 1..Len(resources) |->
     IF resources[j].id = input.ID
     THEN [resources[j] EXCEPT !.name = input.Name, !.address = input.Address,
                               !.alias = AliasOrEmpty(input.Alias)]
     ELSE resources[j]]

Exists(id) == \E j \in 1..Len(resources) : resources[j].id = id

updateExistingResource(p) ==
  /\ sy[p].pc = "update"
  /\ LET s == sy[p]
         mapping == mappings[s.i]
     IN
     IF ~needsUpdate(mapping, s.existing)
     THEN /\ sy' = [sy EXCEPT ![p] = UpsertSuccess(s)]
          /\ UNCHANGED <<resources, faults>>
     ELSE \E ok \in BOOLEAN :
            /\ OutcomeFor(ps[p].ctx, Exists(s.existing.id), ok)
            /\ LET t == Logged(s, Call("UpdateResource", s.i, s.existing.id, ok)) IN
               IF ok
               THEN /\ resources' = UpdateResource(UpdateInput(mapping, s.existing))
                    /\ sy' = [sy EXCEPT ![p] = UpsertSuccess(t)]
               ELSE /\ sy' = [sy EXCEPT ![p] = UpsertError(t)]
                    /\ UNCHANGED resources
  /\ UNCHANGED <<networks, netPad, resPad, nextId, config>>
  /\ UNCHANGED <<discovery, lifecycle, summary>>

\* deleteStaleResources without the filter on the desired names.
StaleResources_NoNameFilter(existingResources, desiredMappings) == existingResources

\* The stale resources deleteStaleResources computes from a listing: those
\* whose name no desired mapping has.
StaleResources(existingResources, desiredMappings) ==
  SelectSeq(existingResources,
            LAMBDA r : \A j \in 1..Len(desiredMappings) : desiredMappings[j].Name # r.name)

\* deleteStaleResources without its DryRun branch.
CleanupAfterListing_IgnoresDryRun(s, ok, staleResources) ==
  IF ~ok THEN [s EXCEPT !.pc = "done", !.result = "error", !.deleted = 0, !.deleteErrors = 1]
  ELSE IF Len(staleResources) = 0
  THEN [s EXCEPT !.pc = "done", !.result = IF s.errors > 0 THEN "error" ELSE "nil"]
  ELSE [s EXCEPT !.pc = "delete", !.stale = staleResources, !.k = 1]

\* deleteStaleResources returning (0, 0) when the listing fails.
CleanupAfterListing_ListingErrorDropped(s, ok, staleResources) ==
  IF ~ok \/ Len(staleResources) = 0 THEN Aggregate(s)
  ELSE IF cleanupConfig.DryRun
  THEN Aggregate([s EXCEPT !.stale = staleResources, !.deleted = Len(staleResources)])
  ELSE [s EXCEPT !.pc = "delete", !.stale = staleResources, !.k = 1]

\* deleteStaleResources once the listing has returned: (0, 1) on an error,
\* (0, 0) for no stale resource, every stale resource counted without a
\* call under DryRun, the deletion loop otherwise.
CleanupAfterListing(s, ok, staleResources) ==
  IF ~ok THEN Aggregate([s EXCEPT !.deleted = 0, !.deleteErrors = 1])
  ELSE IF Len(staleResources) = 0 THEN Aggregate(s)
  ELSE IF cleanupConfig.DryRun
  THEN Aggregate([s EXCEPT !.stale = staleResources, !.deleted = Len(staleResources)])
  ELSE [s EXCEPT !.pc = "delete", !.stale = staleResources, !.k = 1]

\* deleteStaleResources, up to its first DeleteResource call.
deleteStaleResources(p) ==
  /\ sy[p].pc = "cleanup"
  /\ \E ok \in BOOLEAN :
       /\ Outcome(ps[p].ctx, ok)
       /\ sy' = [sy EXCEPT ![p] =
                   CleanupAfterListing(Logged(sy[p], Call("GetResources", 0, EmptyID, ok)), ok,
                                       StaleResources(GetResources(sy[p].networkID), mappings))]
  /\ UNCHANGED <<inventory, config>>
  /\ UNCHANGED <<discovery, lifecycle, summary>>

Remove(list, id) == SelectSeq(list, LAMBDA r : r.id # id)

\* The deletion loop of deleteStaleResources returning at the first failed
\* deletion.
DeleteCounted_AbortsOnFailure(t, ok) ==
  IF ~ok THEN Aggregate([t EXCEPT !.k = t.k + 1, !.deleteErrors = t.deleteErrors + 1])
  ELSE LET u == [t EXCEPT !.k = t.k + 1, !.deleted = t.deleted + 1] IN
       IF u.k <= Len(u.stale) THEN u ELSE Aggregate(u)

\* The deletion loop of deleteStaleResources after one DeleteResource call:
\* deleted++ or errors++, then the next stale resource or the return.
DeleteCounted(t, ok) ==
  LET u == [t EXCEPT !.k = t.k + 1,
                     !.deleted = IF ok THEN t.deleted + 1 ELSE t.deleted,
                     !.deleteErrors = IF ok THEN t.deleteErrors ELSE t.deleteErrors + 1]
  IN IF u.k <= Len(u.stale) THEN u ELSE Aggregate(u)

\* One round of the deletion loop of deleteStaleResources: DeleteResource
\* for stale[k].
DeleteResource(p) ==
  /\ sy[p].pc = "delete"
  /\ \E ok \in BOOLEAN :
       /\ OutcomeFor(ps[p].ctx, Exists(sy[p].stale[sy[p].k].id), ok)
       /\ LET s == sy[p]
              resource == s.stale[s.k]
              t == Logged(s, Call("DeleteResource", 0, resource.id, ok))
          IN
          /\ resources' = IF ok THEN Remove(resources, resource.id) ELSE resources
          /\ sy' = [sy EXCEPT ![p] = DeleteCounted(t, ok)]
  /\ UNCHANGED <<networks, netPad, resPad, nextId, config>>
  /\ UNCHANGED <<discovery, lifecycle, summary>>

Next ==
  \E p \in Syncers :
    \/ SyncResources(p)
    \/ GetOrCreateRemoteNetwork(p)
    \/ CreateRemoteNetwork(p)
    \/ syncSingleResource(p)
    \/ createNewResource(p)
    \/ updateExistingResource(p)
    \/ deleteStaleResources(p)
    \/ DeleteResource(p)

Spec == Init /\ [][Next]_vars

(***************************************************************************)
(* Endpoint                                                                *)
(***************************************************************************)
\* The "\x00" between host and path in a canonical key.
KeySeparator == "NUL"

CanonicalKey(e) == Text(e.Host) \o <<KeySeparator>> \o e.Path

ResourceName(e) == e.Host

\* ResourceAlias without the test for a wildcard.
ResourceAlias_AlwaysTheHost(e) == e.Host

\* nil for a host with a "*" in it, the host otherwise.
ResourceAlias(e) == IF Contains(Text(e.Host), "*") THEN NoAlias ELSE e.Host

ToResourceMapping(e, address) ==
  [Name |-> ResourceName(e), Alias |-> ResourceAlias(e), Address |-> address]

(***************************************************************************)
(* caddyhttp.Route: the configured route as the discoverer receives it     *)
(***************************************************************************)
RECURSIVE ProvisionRoute(_)

\* The handler value a provisioned route holds for a configured handler; a
\* Subroute holds provisioned routes.
ProvisionHandler(h) ==
  CASE h.handler = "reverse_proxy" -> [type |-> "*reverseproxy.Handler", Routes |-> <<>>]
    [] h.handler = "subroute" ->
         [type |-> "*caddyhttp.Subroute",
          Routes |-> [k \in 1..Len(h.routes) |-> ProvisionRoute(h.routes[k])]]
    [] OTHER -> [type |-> "*fileserver.FileServer", Routes |-> <<>>]

\* A provisioned route: MatcherSets and Handlers decoded, the raw fields
\* released.
ProvisionRoute(j) ==
  [MatcherSets |-> j.match,
   Handlers |-> [k \in 1..Len(j.handle) |-> ProvisionHandler(j.handle[k])],
   MatcherSetsRaw |-> <<>>,
   HandlersRaw |-> <<>>]

\* A route of a server whose matchers are decoded and whose handlers are
\* not yet: Handlers is empty, HandlersRaw holds the configured handlers.
HandlersPending(j) ==
  [MatcherSets |-> j.match, Handlers |-> <<>>, MatcherSetsRaw |-> <<>>, HandlersRaw |-> j.handle]

\* json.Unmarshal of a configured route into a caddyhttp.Route: only the
\* fields with a JSON name ("match", "handle") are filled, MatcherSets and
\* Handlers are not.
UnmarshalRoute(j) ==
  [MatcherSets |-> <<>>, Handlers |-> <<>>, MatcherSetsRaw |-> j.match, HandlersRaw |-> j.handle]

\* server.Routes of the HTTP app handed to DiscoverEndpoints.
RoutesOf(serverName, decoded) ==
  [k \in 1..Len(servers[serverName]) |->
     IF decoded THEN ProvisionRoute(servers[serverName][k])
     ELSE HandlersPending(servers[serverName][k])]

(***************************************************************************)
(* RouteDiscoverer                                                         *)
(***************************************************************************)
\* normalizePath that leaves a path without a final slash as it is.
normalizePath_NoSlashAdded(path) ==
  LET trimmed == IF Len(path) > 0 /\ path[Len(path)] = "*"
                 THEN SubSeq(path, 1, Len(path) - 1) ELSE path
  IN IF trimmed = <<"/">> THEN <<>> ELSE trimmed

normalizePath(path) ==
  LET trimmed == IF Len(path) > 0 /\ path[Len(path)] = "*"
                 THEN SubSeq(path, 1, Len(path) - 1) ELSE path
      slashed == IF trimmed # <<>> /\ trimmed # <<"/">> /\ trimmed[Len(trimmed)] # "/"
                 THEN trimmed \o <<"/">> ELSE trimmed
  IN IF slashed = <<"/">> THEN <<>> ELSE slashed

RECURSIVE Flatten(_)
Flatten(lists) == IF lists = <<>> THEN <<>> ELSE Head(lists) \o Flatten(Tail(lists))

\* mergeMatchers for one matcher: a host matcher replaces the hosts, a path
\* matcher with a pattern replaces the path by its first pattern.
mergeMatcher(m, ctx) ==
  CASE m.matcher = "host" -> [ctx EXCEPT !.Hosts = m.values]
    [] m.matcher = "path" ->
         IF Len(m.values) > 0 THEN [ctx EXCEPT !.Path = normalizePath(m.values[1])] ELSE ctx
    [] OTHER -> ctx

RECURSIVE mergeEach(_, _)
mergeEach(matchers, ctx) ==
  IF matchers = <<>> THEN ctx ELSE mergeEach(Tail(matchers), mergeMatcher(Head(matchers), ctx))

\* Only route.MatcherSets is read.
mergeMatchers(route, parentCtx) ==
  mergeEach(Flatten(route.MatcherSets), [Hosts |-> parentCtx.Hosts, Path |-> parentCtx.Path])

\* emitEndpoints: one endpoint per host of the context, "localhost" for no
\* host, unless the map has its key.
emitEndpoints(ctx, endpointMap) ==
  LET hosts == IF Len(ctx.Hosts) = 0 THEN <<"localhost">> ELSE ctx.Hosts
      eps == {[Host |-> hosts[k], Path |-> ctx.Path] : k \in 1..Len(hosts)}
  IN endpointMap \cup
       {[key |-> CanonicalKey(ep), ep |-> ep] :
          ep \in {e \in eps : \A x \in endpointMap : x.key # CanonicalKey(e)}}

RECURSIVE traverseRoute(_, _, _)
RECURSIVE traverseRoutes(_, _, _)
RECURSIVE traverseHandlers(_, _, _)
RECURSIVE traverseHandlersRaw(_, _, _)

\* traverseHandler that knows the proxy alone.
traverseHandler_ProxyOnly(handler, ctx, endpointMap) ==
  IF handler.type = "*reverseproxy.Handler" THEN emitEndpoints(ctx, endpointMap)
  ELSE endpointMap

\* The type switch over a decoded handler.
traverseHandler(handler, ctx, endpointMap) ==
  CASE handler.type = "*reverseproxy.Handler" -> emitEndpoints(ctx, endpointMap)
    [] handler.type = "*caddyhttp.Subroute" -> traverseRoutes(handler.Routes, ctx, endpointMap)
    [] OTHER -> endpointMap

\* The switch over the "handler" key of a handler that is not decoded; the
\* routes of a subroute go through json.Unmarshal.
traverseHandlerRaw(handlerRaw, ctx, endpointMap) ==
  CASE handlerRaw.handler = "reverse_proxy" -> emitEndpoints(ctx, endpointMap)
    [] handlerRaw.handler = "subroute" ->
         traverseRoutes([k \in 1..Len(handlerRaw.routes) |-> UnmarshalRoute(handlerRaw.routes[k])],
                        ctx, endpointMap)
    [] OTHER -> endpointMap

traverseHandlers(handlers, ctx, endpointMap) ==
  IF handlers = <<>> THEN endpointMap
  ELSE traverseHandlers(Tail(handlers), ctx, traverseHandler(Head(handlers), ctx, endpointMap))

traverseHandlersRaw(handlersRaw, ctx, endpointMap) ==
  IF handlersRaw = <<>> THEN endpointMap
  ELSE traverseHandlersRaw(Tail(handlersRaw), ctx,
                           traverseHandlerRaw(Head(handlersRaw), ctx, endpointMap))

traverseRoute(route, parentCtx, endpointMap) ==
  LET ctx == mergeMatchers(route, parentCtx)
      typed == traverseHandlers(route.Handlers, ctx, endpointMap)
  IN IF Len(route.Handlers) = 0 /\ Len(route.HandlersRaw) > 0
     THEN traverseHandlersRaw(route.HandlersRaw, ctx, typed)
     ELSE typed

traverseRoutes(routes, ctx, endpointMap) ==
  IF routes = <<>> THEN endpointMap
  ELSE traverseRoutes(Tail(routes), ctx, traverseRoute(Head(routes), ctx, endpointMap))

\* The context DiscoverEndpoints starts a server with.
ServerContext(serverName) ==
  [Hosts |-> IF serverName # "" /\ serverName # "srv0" THEN <<serverName>> ELSE <<>>,
   Path |-> <<>>]

\* DiscoverEndpoints without the consolidation by host.
deduplicateByHost_KeepsEveryPath(endpointMap) == {x.ep : x \in endpointMap}

\* The hostMap of DiscoverEndpoints: one endpoint per host, its path empty.
deduplicateByHost(endpointMap) == {[Host |-> x.ep.Host, Path |-> <<>>] : x \in endpointMap}

\* The orders in which ranging over a map can yield its values.
Orders(S) ==
  {q \in [1..Cardinality(S) -> S] : \A j, k \in 1..Cardinality(S) : j # k => q[j] # q[k]}

\* DiscoverEndpoints, entry: an empty endpointMap, every server to scan.
\* Every sync calls it anew on the routing tree of the app.
DiscoverEndpoints ==
  /\ rd.pc \in {"idle", "skipped", "mapped"}
  /\ rd.invocation < MaxInvocations
  /\ rd' = [rd EXCEPT !.pc = "servers", !.invocation = rd.invocation + 1,
                      !.pending = DOMAIN servers, !.endpointMap = {},
                      !.endpoints = <<>>, !.previous = rd.endpoints]
  /\ UNCHANGED <<servers, provisioned, caddyAddress, mappings, syncing, lifecycle, summary>>

\* DiscoverEndpoints, one round of the loop over httpApp.Servers, which
\* ranges over a map: the servers come in any order.
ScanServer ==
  /\ rd.pc = "servers"
  /\ \E serverName \in rd.pending :
       rd' = [rd EXCEPT !.pending = rd.pending \ {serverName},
                        !.endpointMap = traverseRoutes(RoutesOf(serverName, provisioned),
                                                       ServerContext(serverName),
                                                       rd.endpointMap)]
  /\ UNCHANGED <<servers, provisioned, caddyAddress, mappings, syncing, lifecycle, summary>>

\* DiscoverEndpoints, after the servers: the endpoints deduplicated by
\* host, in the order ranging over hostMap yields them.
DeduplicateByHost ==
  /\ rd.pc = "servers"
  /\ rd.pending = {}
  /\ \E endpoints \in Orders(deduplicateByHost(rd.endpointMap)) :
       rd' = [rd EXCEPT !.pc = "discovered", !.endpoints = endpoints]
  /\ UNCHANGED <<servers, provisioned, caddyAddress, mappings, syncing, lifecycle, summary>>

\* performSync after DiscoverEndpoints: nothing to sync for no endpoint,
\* one mapping per endpoint otherwise.
ToResourceMappings ==
  /\ rd.pc = "discovered"
  /\ IF Len(rd.endpoints) = 0
     THEN /\ rd' = [rd EXCEPT !.pc = "skipped"]
          /\ UNCHANGED mappings
     ELSE /\ rd' = [rd EXCEPT !.pc = "mapped"]
          /\ mappings' = [k \in 1..Len(rd.endpoints) |->
                            ToResourceMapping(rd.endpoints[k], caddyAddress)]
  /\ UNCHANGED <<servers, provisioned, caddyAddress, syncing, lifecycle, summary>>

\* The caddy_address case of parseTwingateApp and UnmarshalCaddyfile: "nil"
\* or the error for a value net.ParseIP does not parse.
UnmarshalCaddyfile(addr) ==
  IF ParseIP(addr) = NilIP THEN "caddy_address must be a valid IP address" ELSE "nil"

\* The values of caddy_address a configuration that parses can hold.
ParsedCaddyAddresses == {addr \in Addresses : UnmarshalCaddyfile(addr) = "nil"}

\* The HTTP app is any of the routing trees, decoded or not, and the
\* address any the configuration parser lets through; the inventory plays
\* no part.
DiscoveryInit ==
  /\ servers \in ServerSets \cup {ExampleServers}
  /\ provisioned \in BOOLEAN
  /\ caddyAddress \in ParsedCaddyAddresses
  /\ rd = IdleDiscoverer
  /\ mappings = <<>>
  /\ networks = InitNetworks
  /\ netPad = 0
  /\ resources = <<>>
  /\ resPad = 0
  /\ nextId = FirstFreeID
  /\ faults = 0
  /\ remoteNetworkName = ""
  /\ cleanupConfig = NilCleanupConfig
  /\ sy = [p \in Syncers |-> IdleSyncer]
  /\ apps = <<IdleApp>>
  /\ ps = [p \in Syncers |-> DirectCall]
  /\ summary = IdleSummary

DiscoveryNext ==
  \/ DiscoverEndpoints
  \/ ScanServer
  \/ DeduplicateByHost
  \/ ToResourceMappings

DiscoverySpec == DiscoveryInit /\ [][DiscoveryNext]_vars

\* Discovery over the routes of one path pattern each: every pattern goes
\* through mergeMatchers and normalizePath.
NormalizeInit ==
  /\ servers \in PathServers
  /\ provisioned \in BOOLEAN
  /\ caddyAddress = Addr4
  /\ rd = IdleDiscoverer
  /\ mappings = <<>>
  /\ networks = InitNetworks
  /\ netPad = 0
  /\ resources = <<>>
  /\ resPad = 0
  /\ nextId = FirstFreeID
  /\ faults = 0
  /\ remoteNetworkName = ""
  /\ cleanupConfig = NilCleanupConfig
  /\ sy = [p \in Syncers |-> IdleSyncer]
  /\ apps = <<IdleApp>>
  /\ ps = [p \in Syncers |-> DirectCall]
  /\ summary = IdleSummary

NormalizeSpec == NormalizeInit /\ [][DiscoveryNext]_vars

(***************************************************************************)
(* TwingateApp: performSync around SyncResources                           *)
(***************************************************************************)
\* Provision calls performSync with context.Background(); the call arrives
\* at syncMutex.Lock().
Provision(p) ==
  /\ ps[p].pc = "start"
  /\ ps[p].kind = "Provision"
  /\ ps' = [ps EXCEPT ![p].pc = "waiting", ![p].ctx = "background"]
  /\ UNCHANGED <<syncing, mappings, discovery, apps, summary>>

\* TriggerSync calls performSync with a context that has a deadline.
TriggerSync(p) ==
  /\ ps[p].pc = "start"
  /\ ps[p].kind = "TriggerSync"
  /\ ps' = [ps EXCEPT ![p].pc = "waiting", ![p].ctx = "pending"]
  /\ UNCHANGED <<syncing, mappings, discovery, apps, summary>>

\* performSync entering without waiting for the mutex.
Lock_NoMutex(p) ==
  /\ ps[p].pc = "waiting"
  /\ apps' = [apps EXCEPT ![ps[p].app].syncMutex = p]
  /\ ps' = [ps EXCEPT ![p].pc = "locked"]
  /\ UNCHANGED <<syncing, mappings, discovery, summary>>

\* performSync: t.syncMutex.Lock() returns once nobody holds the mutex of
\* the instance.
Lock(p) ==
  /\ ps[p].pc = "waiting"
  /\ apps[ps[p].app].syncMutex = 0
  /\ apps' = [apps EXCEPT ![ps[p].app].syncMutex = p]
  /\ ps' = [ps EXCEPT ![p].pc = "locked"]
  /\ UNCHANGED <<syncing, mappings, discovery, summary>>

\* performSync after SyncResources has returned: lastSync is set when a
\* sync over some mapping returned nil, and the deferred Unlock runs.
Unlock(p) ==
  /\ ps[p].pc = "locked"
  /\ sy[p].pc = "done"
  /\ apps' = [apps EXCEPT ![ps[p].app].syncMutex = 0,
                          ![ps[p].app].lastSync =
                             IF sy[p].result = "nil" /\ Len(mappings) > 0 THEN @ + 1 ELSE @]
  /\ ps' = [ps EXCEPT ![p].pc = "returned"]
  /\ UNCHANGED <<syncing, mappings, discovery, summary>>

\* The deadline of the context of a TriggerSync passes while its sync is
\* under way.
Expire(p) ==
  /\ ps[p].ctx = "pending"
  /\ ps[p].pc \in {"waiting", "locked"}
  /\ sy[p].pc # "done"
  /\ ps' = [ps EXCEPT ![p].ctx = "expired"]
  /\ UNCHANGED <<syncing, mappings, discovery, apps, summary>>

\* Two calls of performSync: Provision next to a TriggerSync on the same
\* instance, or next to the Provision of a second instance with the same
\* configuration (a configuration reload).
Callers == {1, 2}
AppCallers ==
  { <<ProvisionOf(1), TriggerSyncOf(1)>>, <<ProvisionOf(1), ProvisionOf(2)>> }

\* Mappings of the instances: one with an alias, one without, a valid one
\* followed by one validation rejects, two valid ones.
AppMappingLists ==
  { << [Name |-> HostA, Alias |-> HostA, Address |-> Addr4] >>,
    << [Name |-> HostW, Alias |-> NoAlias, Address |-> Addr4] >>,
    << [Name |-> HostA, Alias |-> HostA, Address |-> Addr4],
       [Name |-> HostB, Alias |-> HostB, Address |-> Addr6] >>,
    << [Name |-> HostW, Alias |-> NoAlias, Address |-> Addr4],
       [Name |-> HostA, Alias |-> HostA, Address |-> Addr4] >> }

\* Inventories the instances find: empty, or one resource.
AppInventories == {<<>>} \cup {WithIDs(<<r>>) : r \in InitResourceShapes}

\* Cleanup disabled, or enabled and not a dry run.
AppCleanupConfigs == {NilCleanupConfig, [present |-> TRUE, Enabled |-> TRUE, DryRun |-> FALSE]}

\* The mappings and the inventory the syncs of the instances find.
AppInit ==
  /\ networks = InitNetworks
  /\ faults = 0
  /\ mappings \in AppMappingLists
  /\ cleanupConfig \in AppCleanupConfigs
  /\ ps \in AppCallers
  /\ sy = [p \in Callers |-> IdleSyncer]
  /\ apps = <<IdleApp, IdleApp>>
  /\ summary = IdleSummary
  /\ \/ /\ remoteNetworkName = ""
        /\ netPad = 0
        /\ resPad \in {0, ResourcesPageSize - 1}
        /\ resources \in AppInventories
     \/ /\ remoteNetworkName = "Caddy-Resources"
        /\ netPad = 0
        /\ resPad = 0
        /\ resources = <<>>
  /\ nextId = FirstFreeID + Len(resources)
  /\ servers = ExampleServers
  /\ provisioned = TRUE
  /\ caddyAddress = Addr4
  /\ rd = IdleDiscoverer

AppNext ==
  \E p \in Callers :
    \/ Provision(p)
    \/ TriggerSync(p)
    \/ Lock(p)
    \/ Unlock(p)
    \/ Expire(p)
    \/ SyncResources(p)
    \/ GetOrCreateRemoteNetwork(p)
    \/ CreateRemoteNetwork(p)
    \/ syncSingleResource(p)
    \/ createNewResource(p)
    \/ updateExistingResource(p)
    \/ deleteStaleResources(p)
    \/ DeleteResource(p)

AppSpec == AppInit /\ [][AppNext]_vars

\* What a call of performSync does once it holds the mutex.
Progress(p) ==
  \/ SyncResources(p)
  \/ GetOrCreateRemoteNetwork(p)
  \/ CreateRemoteNetwork(p)
  \/ syncSingleResource(p)
  \/ createNewResource(p)
  \/ updateExistingResource(p)
  \/ deleteStaleResources(p)
  \/ DeleteResource(p)
  \/ Unlock(p)

\* Every remote call returns (the HTTP client has a timeout), the goroutine
\* of a call goes on running, and a mutex that is free is handed to a
\* goroutine blocked in Lock.  The second conjunct is weak fairness of
\* Progress(p) with its enabling condition written out: a step of Progress(p)
\* is possible exactly while the call is between Lock and Unlock.
AppFairSpec ==
  AppSpec /\ \A p \in Callers :
              /\ WF_vars(Lock(p))
              /\ ([]<>(ps[p].pc # "locked") \/ []<><<Progress(p)>>_vars)

(***************************************************************************)
(* ResourceSyncer.GetSyncSummary                                           *)
(***************************************************************************)
\* GetSyncSummary, up to its first remote call: the summary of no mappings
\* is returned at once.
GetSyncSummary ==
  /\ summary.pc \in {"idle", "done"}
  /\ summary' =
       IF Len(mappings) = 0
       THEN [IdleSummary EXCEPT !.pc = "done", !.result = "nil"]
       ELSE [IdleSummary EXCEPT !.pc = "network",
                                !.TotalMappings = Len(mappings),
                                !.networkName = NetworkNameOf(remoteNetworkName)]
  /\ UNCHANGED <<syncing, mappings, discovery, lifecycle>>

\* Name of the listed network of that ID.
NetworkName(id) == networks[CHOOSE j \in 1..Len(networks) : networks[j].id = id].name

\* The loop of GetSyncSummary goes to the next mapping, or the summary is
\* returned.
SummaryAdvance(s) ==
  IF s.i < Len(mappings) THEN [s EXCEPT !.i = s.i + 1]
  ELSE [s EXCEPT !.pc = "done", !.result = "nil"]

\* GetSyncSummary, the check of the remote network: an error ends the
\* preview without a summary.
SummaryRemoteNetwork ==
  /\ summary.pc = "network"
  /\ \E ok \in BOOLEAN :
       /\ Outcome("background", ok)
       /\ LET s == Logged(summary, Call("GetRemoteNetworks", 0, EmptyID, ok))
              network == GetRemoteNetworkByName(s.networkName)
          IN summary' =
               IF ~ok THEN [s EXCEPT !.pc = "done", !.result = "error"]
               ELSE IF network = EmptyID
               THEN [s EXCEPT !.pc = "mapping", !.i = 1, !.network = EmptyID,
                              !.RemoteNetworkAction = "create",
                              !.RemoteNetworkName = s.networkName]
               ELSE [s EXCEPT !.pc = "mapping", !.i = 1, !.network = network,
                              !.RemoteNetworkAction = "use_existing",
                              !.RemoteNetworkName = NetworkName(network),
                              !.RemoteNetworkID = network]
  /\ UNCHANGED <<inventory, config, sy>>
  /\ UNCHANGED <<discovery, lifecycle>>

\* GetSyncSummary, one turn of the loop over the mappings: a mapping whose
\* lookup fails is logged and skipped.
SummaryMapping ==
  /\ summary.pc = "mapping"
  /\ LET s == summary
         mapping == mappings[s.i]
     IN
     IF s.network = EmptyID
     THEN /\ summary' = SummaryAdvance([s EXCEPT !.ResourcesToCreate = @ + 1])
          /\ UNCHANGED faults
     ELSE \E ok \in BOOLEAN :
            /\ Outcome("background", ok)
            /\ LET t == Logged(s, Call("GetResources", s.i, EmptyID, ok))
                   existing == LookupExisting(mapping, s.network)
               IN summary' =
                    SummaryAdvance(
                      IF ~ok THEN t
                      ELSE IF existing # NilResource
                      THEN [t EXCEPT !.ResourcesToUpdate = @ + 1]
                      ELSE [t EXCEPT !.ResourcesToCreate = @ + 1])
  /\ UNCHANGED <<inventory, config, sy>>
  /\ UNCHANGED <<discovery, lifecycle>>

\* Previews are asked for while a syncer works on the same tenant.
SummaryMappingLists == AppMappingLists \cup {<<>>}

SummaryInit ==
  /\ networks = InitNetworks
  /\ faults = 0
  /\ mappings \in SummaryMappingLists
  /\ cleanupConfig \in AppCleanupConfigs
  /\ sy = [p \in Syncers |-> IdleSyncer]
  /\ ps = [p \in Syncers |-> DirectCall]
  /\ apps = <<IdleApp>>
  /\ summary = IdleSummary
  /\ \/ /\ remoteNetworkName = ""
        /\ netPad = 0
        /\ resPad \in {0, ResourcesPageSize - 1}
        /\ resources \in AppInventories
     \/ /\ remoteNetworkName = "Caddy-Resources"
        /\ netPad = 0
        /\ resPad = 0
        /\ resources = <<>>
  /\ nextId = FirstFreeID + Len(resources)
  /\ servers = ExampleServers
  /\ provisioned = TRUE
  /\ caddyAddress = Addr4
  /\ rd = IdleDiscoverer

SummaryNext ==
  \/ Next
  \/ GetSyncSummary
  \/ SummaryRemoteNetwork
  \/ SummaryMapping

SummarySpec == SummaryInit /\ [][SummaryNext]_vars

(***************************************************************************)
(* Vocabulary of the properties                                            *)
(***************************************************************************)
Range(q) == {q[j] : j \in 1..Len(q)}

DesiredNames == {mappings[j].Name : j \in 1..Len(mappings)}

\* The entries of a history that are remote calls of one of the operations.
CallsOf(s, ops) == {j \in 1..Len(s.calls) : s.calls[j].op \in ops}

ResourceCalls == {"GetResources", "CreateResource", "UpdateResource", "DeleteResource"}

TypeOK ==
  /\ faults \in 0..MaxFaults
  /\ \A p \in Syncers : sy[p].pc \in {"idle", "resolve", "createNetwork", "upsert", "create",
                                      "update", "cleanup", "delete", "done"}

(***************************************************************************)
(* C1  Idempotence of SyncResources: in a run that follows a run of the     *)
(* same syncer that returned no error (same mappings, network name and     *)
(* cleanup config, nothing else touching the inventory in between), no     *)
(* CreateResource and no UpdateResource call is issued.                    *)
(***************************************************************************)
C1_SecondRunIssuesNoMutation ==
  \A p \in Syncers :
    (sy[p].run >= 2 /\ sy[p].prevResult = "nil")
      => CallsOf(sy[p], {"CreateResource", "UpdateResource"}) = {}

\* The same, for inventories whose listings fit in the page a query returns.
C1_WithinOnePage ==
  (netPad = 0 /\ resPad = 0) => C1_SecondRunIssuesNoMutation

\* The call a step has just added to the history of p, if it added one.
Issued(p, op) ==
  /\ Len(sy'[p].calls) = Len(sy[p].calls) + 1
  /\ sy'[p].calls[Len(sy'[p].calls)].op = op

LastCall(s) == s.calls[Len(s.calls)]

\* The resources of a network that a listing returns and that carry a name
\* no desired mapping has, by their position in the inventory.
ListedStale(netID) ==
  {j \in 1..Len(resources) :
     /\ resPad + j <= ResourcesPageSize
     /\ resources[j].net = netID
     /\ resources[j].name \notin DesiredNames}

\* The cleanup pass of the current run has listed the resources.
CleanupListed(s) == \E j \in 1..Len(s.calls) : s.calls[j].op = "GetResources" /\ s.calls[j].m = 0

(***************************************************************************)
(* C2  Every DeleteResource call targets a resource of the target network  *)
(* whose name no desired mapping has; a resource with a desired name, or   *)
(* of another network, is never removed.                                   *)
(***************************************************************************)
C2_DeletesOnlyStaleOfTarget ==
  [][\A p \in Syncers :
       /\ Issued(p, "DeleteResource") =>
            \E r \in Range(resources) :
               /\ r.id = LastCall(sy'[p]).id
               /\ r.net = sy[p].networkID
               /\ r.name \notin DesiredNames
       /\ \A r \in Range(resources) :
            (r.name \in DesiredNames \/ r.net # sy[p].networkID)
               => \E q \in Range(resources') : q.id = r.id
    ]_vars

\* A pass that deleted a resource while a resource with a desired name and a
\* resource of another network were in the inventory, and still are.
C2_Witness ==
  \E p \in Syncers :
    /\ sy[p].pc = "done"
    /\ \E j \in CallsOf(sy[p], {"DeleteResource"}) : sy[p].calls[j].ok
    /\ \E r \in Range(resources) : r.net = sy[p].networkID /\ r.name \in DesiredNames
    /\ \E r \in Range(resources) : r.net # sy[p].networkID

C4_NoCleanupUnlessEnabled ==
  (~cleanupConfig.present \/ ~cleanupConfig.Enabled) =>
    \A p \in Syncers :
      /\ sy[p].pc \notin {"cleanup", "delete"}
      /\ CallsOf(sy[p], {"DeleteResource"}) = {}
      /\ ~CleanupListed(sy[p])

\* A finished, successful run with cleanup present but not Enabled and
\* DryRun set, that left a resource of an undesired name in the target
\* network.
C4_Witness ==
  \E p \in Syncers :
    /\ sy[p].pc = "done" /\ sy[p].result = "nil" /\ sy[p].networkID # EmptyID
    /\ cleanupConfig.present /\ ~cleanupConfig.Enabled /\ cleanupConfig.DryRun
    /\ \E r \in Range(resources) : r.net = sy[p].networkID /\ r.name \notin DesiredNames

TargetNetworkIDs ==
  {n.id : n \in {m \in Range(networks) : m.name = NetworkNameOf(remoteNetworkName)}}

(***************************************************************************)
(* C6  With cleanup enabled and not in dry-run, after a sync over its      *)
(* target network that reports no error, every resource left in the target *)
(* network has the name of a desired mapping.                              *)
(***************************************************************************)
C6_OnlyDesiredResourcesRemain ==
  \A p \in Syncers :
    ( /\ sy[p].pc = "done" /\ sy[p].result = "nil" /\ sy[p].networkID # EmptyID
      /\ cleanupConfig.present /\ cleanupConfig.Enabled /\ ~cleanupConfig.DryRun )
      => \A r \in Range(resources) : r.net \in TargetNetworkIDs => r.name \in DesiredNames

\* The same, for inventories whose listings fit in the page a query returns.
C6_WithinOnePage ==
  (netPad = 0 /\ resPad = 0) => C6_OnlyDesiredResourcesRemain

(***************************************************************************)
(* C7  When resolving the target network fails (the listing of networks,   *)
(* or the creation of the absent network), SyncResources returns an error  *)
(* at once: the failed call is the last of the run and no resource call    *)
(* (lookup, create, update, delete) is made.                               *)
(***************************************************************************)
C7_ResolutionFailureIsFatal ==
  \A p \in Syncers :
    \A j \in CallsOf(sy[p], {"GetRemoteNetworks", "CreateRemoteNetwork"}) :
      ~sy[p].calls[j].ok =>
        /\ sy[p].pc = "done"
        /\ sy[p].result = "error"
        /\ j = Len(sy[p].calls)
        /\ CallsOf(sy[p], ResourceCalls \cup {"invalid mapping"}) = {}

\* The creation of the absent network has failed.
C7_Witness ==
  \E p \in Syncers :
    \E j \in CallsOf(sy[p], {"CreateRemoteNetwork"}) :
      ~sy[p].calls[j].ok /\ sy[p].pc = "done" /\ Len(mappings) = MaxMappings

(***************************************************************************)
(* C8  Network resolution creates a network only if no network of exactly  *)
(* the target name exists in the inventory, however many networks it       *)
(* holds, so no two networks ever carry the same name.                     *)
(***************************************************************************)
C8_CreatesNetworkOnlyIfAbsent ==
  /\ \A p \in Syncers :
       sy[p].pc = "createNetwork" =>
         \A n \in Range(networks) : n.name # sy[p].networkName
  /\ \A j, k \in 1..Len(networks) : j # k => networks[j].name # networks[k].name

\* An address in the textual form of IPv6: an IP literal written with ':'.
IsIPv6Literal(a) == ParseIP(a) # NilIP /\ Contains(a, ":")

(***************************************************************************)
(* C9  In the upsert pass a mapping with an empty name, an empty address,  *)
(* an address that is no IP literal, or an IPv6 address is rejected with   *)
(* no lookup, CreateResource or UpdateResource call made for it; any other *)
(* mapping passes validation.                                              *)
(***************************************************************************)
C9_RejectsEveryIPv6Address ==
  \A p \in Syncers :
    \A j \in 1..Len(sy[p].calls) :
      LET c == sy[p].calls[j] IN
      c.m > 0 =>
        LET mapping == mappings[c.m]
            rejectable == \/ mapping.Name = ""
                          \/ mapping.Address = <<>>
                          \/ ParseIP(mapping.Address) = NilIP
                          \/ IsIPv6Literal(mapping.Address)
        IN (c.op = "invalid mapping") <=> rejectable

(***************************************************************************)
(* C10  As claimed: a mapping with the address 2001:db8::1 is rejected     *)
(* before any remote call of the run, the listing or creation of the       *)
(* target network included.                                                *)
(***************************************************************************)
C10_RejectedBeforeAnyCallOfTheRun ==
  \A p \in Syncers :
    \A j \in CallsOf(sy[p], {"invalid mapping"}) :
      mappings[sy[p].calls[j].m].Address = Addr6 =>
        \A h \in 1..(j - 1) : sy[p].calls[h].op = "invalid mapping"

\* The upsert pass of the current run is past mappings[i].
Processed(s, i) ==
  /\ s.networkID # EmptyID
  /\ \/ s.i > i
     \/ s.pc \in {"cleanup", "delete", "done"}

(***************************************************************************)
(* C10  As amended: a mapping with the address 2001:db8::1 is rejected     *)
(* with no remote call made for it (no lookup, create or update); the      *)
(* rejection comes after the run has listed, and if need be created, the   *)
(* target network, which it does before it validates any mapping.          *)
(***************************************************************************)
C10_RejectedBeforeItsOwnCalls ==
  \A p \in Syncers :
    \A i \in 1..Len(mappings) :
      mappings[i].Address = Addr6 =>
        LET entries == {j \in 1..Len(sy[p].calls) : sy[p].calls[j].m = i} IN
        /\ \A j \in entries :
             /\ sy[p].calls[j].op = "invalid mapping"
             /\ j > 1
             /\ sy[p].calls[1].op = "GetRemoteNetworks" /\ sy[p].calls[1].ok
        /\ Cardinality(entries) <= 1
        /\ Processed(sy[p], i) => entries # {}

\* The mapping with the address 2001:db8::1 has been rejected after the
\* target network was listed and created.
C10_Witness ==
  \E p \in Syncers :
    \E j \in CallsOf(sy[p], {"invalid mapping"}) :
      /\ mappings[sy[p].calls[j].m].Address = Addr6
      /\ sy[p].calls[j - 1].op = "CreateRemoteNetwork"
      /\ sy[p].pc = "done"
\* The failures a history holds for the upsert pass (entries made for a
\* mapping) and for the cleanup pass (its listing and its deletions).
UpsertFailures(s) == {j \in 1..Len(s.calls) : s.calls[j].m > 0 /\ ~s.calls[j].ok}
CleanupFailures(s) ==
  {j \in 1..Len(s.calls) :
     /\ s.calls[j].m = 0
     /\ s.calls[j].op \in {"GetResources", "DeleteResource"}
     /\ ~s.calls[j].ok}

(***************************************************************************)
(* C11  For non-empty mappings and a resolved network, a finished run      *)
(* returns an error if and only if the failures of its upsert pass plus    *)
(* the failures of its cleanup pass number more than zero, whatever it     *)
(* created, updated or deleted.                                            *)
(***************************************************************************)
C11_ErrorIffAnyFailure ==
  \A p \in Syncers :
    (sy[p].pc = "done" /\ sy[p].networkID # EmptyID)
      => /\ sy[p].errors = Cardinality(UpsertFailures(sy[p]))
         /\ sy[p].deleteErrors = Cardinality(CleanupFailures(sy[p]))
         /\ (sy[p].result = "error")
              <=> (Cardinality(UpsertFailures(sy[p])) + Cardinality(CleanupFailures(sy[p])) > 0)

\* A run that returned success after it created a resource and deleted
\* another.
C11_Witness ==
  \E p \in Syncers :
    /\ sy[p].pc = "done" /\ sy[p].result = "nil" /\ sy[p].networkID # EmptyID
    /\ \E j \in CallsOf(sy[p], {"CreateResource"}) : sy[p].calls[j].ok
    /\ \E j \in CallsOf(sy[p], {"DeleteResource"}) : sy[p].calls[j].ok

\* A run that returned an error for a failed deletion alone.
C11_WitnessCleanupError ==
  \E p \in Syncers :
    /\ sy[p].pc = "done" /\ sy[p].result = "error"
    /\ sy[p].errors = 0 /\ sy[p].deleteErrors = 1

\* The entries the history holds for mappings[i].
EntriesOf(s, i) == {j \in 1..Len(s.calls) : s.calls[j].m = i}

\* The mappings the upsert pass of the current run is through with.
Finished(s) ==
  IF s.networkID = EmptyID THEN 0
  ELSE IF s.pc \in {"cleanup", "delete", "done"} THEN Len(mappings)
  ELSE s.i - 1

(***************************************************************************)
(* C12  The upsert pass processes every mapping exactly once, in input     *)
(* order, whatever became of the earlier ones: a failure (validation,      *)
(* transport, not-ok answer) counts as one error and the next mapping is   *)
(* still processed, success count + error count is the number of mappings  *)
(* processed, and the cleanup pass, when enabled, runs afterwards.         *)
(***************************************************************************)
C12_EveryMappingProcessedOnce ==
  \A p \in Syncers :
    LET s == sy[p] IN
    /\ \A j, k \in 1..Len(s.calls) :
         (j < k /\ s.calls[j].m > 0 /\ s.calls[k].m > 0) => s.calls[j].m <= s.calls[k].m
    /\ \A j \in 1..Len(s.calls) : s.calls[j].m > 0 => s.calls[j].m <= Finished(s) + 1
    /\ \A i \in 1..Finished(s) :
         /\ EntriesOf(s, i) # {}
         /\ Cardinality({j \in EntriesOf(s, i) : ~s.calls[j].ok}) <= 1
         /\ Cardinality({j \in EntriesOf(s, i) :
                            s.calls[j].op \in {"invalid mapping", "GetResources"}}) = 1
         /\ \A j \in EntriesOf(s, i) : ~s.calls[j].ok => \A k \in EntriesOf(s, i) : k <= j
    /\ s.success + s.errors = Finished(s)
    /\ s.errors = Cardinality({i \in 1..Finished(s) : \E j \in EntriesOf(s, i) : ~s.calls[j].ok})
    /\ (s.pc = "done" /\ s.networkID # EmptyID)
         => /\ s.success + s.errors = Len(mappings)
            /\ CleanupEnabled => CleanupListed(s)

\* A run whose first mapping failed and whose second was created, with the
\* cleanup listing made afterwards.
C12_Witness ==
  \E p \in Syncers :
    /\ sy[p].pc = "done" /\ Len(mappings) = 2
    /\ sy[p].errors = 1 /\ sy[p].success = 1
    /\ \E j \in EntriesOf(sy[p], 1) : ~sy[p].calls[j].ok
    /\ \E j \in EntriesOf(sy[p], 2) : sy[p].calls[j].op = "CreateResource" /\ sy[p].calls[j].ok
    /\ CleanupListed(sy[p])
\* The DeleteResource calls of a history, in the order they were made.
DeleteCalls(s) == SelectSeq(s.calls, LAMBDA c : c.op = "DeleteResource")

Matches(mapping, r) ==
  IF mapping.Alias # NoAlias THEN r.alias = mapping.Alias ELSE r.name = mapping.Name

(***************************************************************************)
(* C14  The lookup for a valid mapping finds a resource of the target      *)
(* network that matches it (by alias when the mapping has one, by name     *)
(* otherwise) whenever one exists, however many resources the inventory    *)
(* holds: CreateResource is reached only when no resource of the target    *)
(* network matches, and the resource handed to the update is a matching    *)
(* resource of the target network.                                         *)
(***************************************************************************)
C14_LookupFindsEveryMatch ==
  \A p \in Syncers :
    LET s == sy[p] IN
    /\ s.pc = "create" =>
         ~\E r \in Range(resources) : r.net = s.networkID /\ Matches(mappings[s.i], r)
    /\ s.pc = "update" =>
         /\ s.existing \in Range(resources)
         /\ s.existing.net = s.networkID
         /\ Matches(mappings[s.i], s.existing)

\* The same, for inventories whose listings fit in the page a query returns.
C14_WithinOnePage ==
  (netPad = 0 /\ resPad = 0) => C14_LookupFindsEveryMatch

\* The rest of C14: a mapping gets at most one CreateResource call, and a
\* successful one adds to the target network a resource with the mapping's
\* name, address and alias.
C14_CreateCarriesTheMapping ==
  [][\A p \in Syncers :
       Issued(p, "CreateResource") =>
         LET c == LastCall(sy'[p])
             mapping == mappings[c.m]
         IN
         /\ Cardinality({j \in EntriesOf(sy'[p], c.m) :
                           sy'[p].calls[j].op = "CreateResource"}) = 1
         /\ c.ok => /\ Len(resources') = Len(resources) + 1
                    /\ LET r == resources'[Len(resources')] IN
                       /\ r.name = mapping.Name
                       /\ r.address = mapping.Address
                       /\ r.alias = AliasOrEmpty(mapping.Alias)
                       /\ r.net = sy[p].networkID
         /\ ~c.ok => resources' = resources
    ]_vars
\* The resource of that ID in an inventory, NilResource when it has none.
ResourceOf(list, id) ==
  IF \E j \in 1..Len(list) : list[j].id = id
  THEN list[CHOOSE j \in 1..Len(list) : list[j].id = id]
  ELSE NilResource

\* Name, address and alias (an absent alias being the empty one) of the
\* existing resource equal those the mapping asks for.
UpToDate(mapping, existing) ==
  /\ existing.name = mapping.Name
  /\ existing.address = mapping.Address
  /\ (IF existing.alias = NoAlias THEN "" ELSE existing.alias)
       = (IF mapping.Alias = NoAlias THEN "" ELSE mapping.Alias)

(***************************************************************************)
(* C15  Minimal diff on an existing resource: when its name, address and   *)
(* alias equal the mapping's, no UpdateResource call is made and nothing   *)
(* changes; when one differs, exactly one UpdateResource call is made, for *)
(* the ID of that resource, and the three values it sends are the          *)
(* mapping's name, address and alias, so that after a successful call the  *)
(* resource carries them, and after a failed call the inventory is as it   *)
(* was.                                                                    *)
(***************************************************************************)
C15_MinimalDiff ==
  [][\A p \in Syncers :
       (sy[p].pc = "update" /\ sy'[p] # sy[p]) =>
         LET s == sy[p]
             mapping == mappings[s.i]
             sent == UpdateInput(mapping, s.existing)
         IN
         IF UpToDate(mapping, s.existing)
         THEN /\ sy'[p].calls = s.calls
              /\ resources' = resources
              /\ sy'[p].success = s.success + 1
              /\ sy'[p].errors = s.errors
         ELSE /\ Issued(p, "UpdateResource")
              /\ LastCall(sy'[p]).id = s.existing.id
              /\ LastCall(sy'[p]).m = s.i
              /\ Cardinality({j \in EntriesOf(sy'[p], s.i) :
                                sy'[p].calls[j].op = "UpdateResource"}) = 1
              /\ sent.ID = s.existing.id
              /\ sent.Name = mapping.Name
              /\ sent.Address = mapping.Address
              /\ (IF sent.Alias = NoAlias THEN "" ELSE sent.Alias)
                   = (IF mapping.Alias = NoAlias THEN "" ELSE mapping.Alias)
              /\ IF LastCall(sy'[p]).ok
                 THEN /\ UpToDate(mapping, ResourceOf(resources', s.existing.id))
                      /\ \A r \in Range(resources) :
                           r.id # s.existing.id => r \in Range(resources')
                      /\ Len(resources') = Len(resources)
                 ELSE resources' = resources
    ]_vars

\* An update that changed the address alone: the resource found had the
\* name and the alias of the mapping and an outdated address, and carries
\* the mapping's address now.
C15_Witness ==
  \E p \in Syncers :
    /\ sy[p].calls # <<>>
    /\ LastCall(sy[p]).op = "UpdateResource" /\ LastCall(sy[p]).ok
    /\ LET r == ResourceOf(resources, LastCall(sy[p]).id)
           mapping == mappings[LastCall(sy[p]).m]
       IN /\ r.name = HostA /\ r.alias = HostA /\ r.address = Addr4
          /\ mapping.Name = HostA /\ mapping.Address = Addr4
    /\ ~\E r \in Range(resources) : r.address = Addr4Old

\* An update that removed the alias of the resource found by name, and a
\* lookup that found a resource with nothing to change.
C15_WitnessAliasCleared ==
  \E p \in Syncers :
    /\ sy[p].calls # <<>>
    /\ LastCall(sy[p]).op = "UpdateResource" /\ LastCall(sy[p]).ok
    /\ mappings[LastCall(sy[p]).m].Alias = NoAlias
    /\ ResourceOf(resources, LastCall(sy[p]).id).alias = ""

C15_WitnessNothingToChange ==
  \E p \in Syncers :
    /\ sy[p].pc = "update"
    /\ UpToDate(mappings[sy[p].i], sy[p].existing)
(***************************************************************************)
(* Vocabulary of the properties of route discovery                         *)
(***************************************************************************)
\* DiscoverEndpoints has returned.
Discovered == rd.pc \in {"discovered", "skipped", "mapped"}

\* The hosts for which the traversal has emitted an endpoint.
EmittedHosts == {x.ep.Host : x \in rd.endpointMap}

HasWildcard(host) == \E j \in 1..Len(Text(host)) : Text(host)[j] = "*"

C17_AliasAbsentIffWildcard ==
  /\ \A x \in rd.endpointMap :
       /\ (ResourceAlias(x.ep) = NoAlias) <=> HasWildcard(x.ep.Host)
       /\ ~HasWildcard(x.ep.Host) => ResourceAlias(x.ep) = x.ep.Host
  /\ rd.pc = "mapped" =>
       \A k \in 1..Len(mappings) :
         /\ (mappings[k].Alias = NoAlias) <=> HasWildcard(mappings[k].Name)
         /\ ~HasWildcard(mappings[k].Name) => mappings[k].Alias = mappings[k].Name

\* A wildcard host without an alias next to a host, emitted under a path,
\* with its alias.
C17_Witness ==
  /\ rd.pc = "mapped"
  /\ \E k \in 1..Len(mappings) : mappings[k].Name = HostW /\ mappings[k].Alias = NoAlias
  /\ \E k \in 1..Len(mappings) : mappings[k].Name = HostB /\ mappings[k].Alias = HostB
  /\ \E x \in rd.endpointMap : x.ep.Host = HostB /\ x.ep.Path # <<>>

\* The endpoints a traversal of every server emits for the routing tree in
\* the given representation.
RECURSIVE TraverseServers(_, _, _)
TraverseServers(names, decoded, endpointMap) ==
  IF names = {} THEN endpointMap
  ELSE LET serverName == CHOOSE n \in names : TRUE IN
       TraverseServers(names \ {serverName}, decoded,
                       traverseRoutes(RoutesOf(serverName, decoded), ServerContext(serverName),
                                      endpointMap))

\* The kind a handler is classified as: decoded, and by its "handler" key.
KindOfHandler(handler) ==
  CASE handler.type = "*reverseproxy.Handler" -> "proxy leaf"
    [] handler.type = "*caddyhttp.Subroute" -> "nested subroute"
    [] OTHER -> "opaque"

KindOfHandlerRaw(handlerRaw) ==
  CASE handlerRaw.handler = "reverse_proxy" -> "proxy leaf"
    [] handlerRaw.handler = "subroute" -> "nested subroute"
    [] OTHER -> "opaque"

\* Every configured handler of the tree, at any depth.
RECURSIVE HandlersUnder(_)
HandlersUnder(routes) ==
  UNION {UNION {{routes[k].handle[h]} \cup HandlersUnder(routes[k].handle[h].routes) :
                  h \in 1..Len(routes[k].handle)} : k \in 1..Len(routes)}

(***************************************************************************)
(* C18  Route discovery yields the same result whether the handlers, and   *)
(* the routes under subroute handlers with their host and path matchers,   *)
(* arrive decoded or as untyped maps: every handler is classified as the   *)
(* same kind, and DiscoverEndpoints returns the hosts it returns for the   *)
(* decoded tree.                                                           *)
(***************************************************************************)
C18_SameHostsEitherWay ==
  /\ \A n \in DOMAIN servers :
       \A h \in HandlersUnder(servers[n]) : KindOfHandlerRaw(h) = KindOfHandler(ProvisionHandler(h))
  /\ Discovered =>
       {rd.endpoints[k].Host : k \in 1..Len(rd.endpoints)}
         = {x.ep.Host : x \in TraverseServers(DOMAIN servers, TRUE, {})}

\* The same, for trees in which no route under a subroute has a matcher.
C18_WithoutNestedMatchers ==
  (\A n \in DOMAIN servers :
     \A h \in HandlersUnder(servers[n]) :
       \A k \in 1..Len(h.routes) : h.routes[k].match = <<>>)
    => C18_SameHostsEitherWay

\* The hosts a configured route sends to a proxy leaf: those of its own
\* host matcher, or the inherited ones, handed down through subroutes.
HostMatcherOf(route) ==
  LET ms == Flatten(route.match)
      hs == {k \in 1..Len(ms) : ms[k].matcher = "host"}
  IN IF hs = {} THEN <<>> ELSE ms[CHOOSE k \in hs : \A j \in hs : j <= k].values

RECURSIVE HostsOfLeaves(_, _)
HostsOfLeaves(route, inherited) ==
  LET own == IF HostMatcherOf(route) # <<>> THEN HostMatcherOf(route) ELSE inherited IN
  UNION {IF route.handle[h].handler = "reverse_proxy" THEN Range(own)
         ELSE IF route.handle[h].handler = "subroute"
         THEN UNION {HostsOfLeaves(route.handle[h].routes[k], own) :
                       k \in 1..Len(route.handle[h].routes)}
         ELSE {} : h \in 1..Len(route.handle)}

ExpectedHosts(serverName) ==
  UNION {HostsOfLeaves(servers[serverName][k],
                       IF serverName \in {"", "srv0"} THEN <<"localhost">> ELSE <<serverName>>) :
           k \in 1..Len(servers[serverName])}

(***************************************************************************)
(* C19  For every proxy leaf the traversal reaches, the hosts emitted are  *)
(* the host list of the nearest enclosing route with a host matcher; with  *)
(* no host matcher on the chain they are the server name when the server   *)
(* is not an anonymous default ("" or "srv0"), and "localhost" otherwise;  *)
(* opaque handlers emit nothing. So the hosts emitted for the servers      *)
(* scanned so far are exactly these.                                       *)
(***************************************************************************)
C19_HostsOfNearestMatcher ==
  rd.pc # "idle" =>
    EmittedHosts = UNION {ExpectedHosts(n) : n \in DOMAIN servers \ rd.pending}

\* The same, for routes that arrive decoded.
C19_Decoded == provisioned => C19_HostsOfNearestMatcher

C21_SameResultEveryInvocation ==
  (rd.pc = "discovered" /\ rd.invocation >= 2) => rd.endpoints = rd.previous

\* The endpoints returned are the same ones, whatever their order.
C21_SameEndpointsInAnyOrder ==
  (rd.pc = "discovered" /\ rd.invocation >= 2) => Range(rd.endpoints) = Range(rd.previous)

\* Discovery changes nothing but its own locals and the mappings built.
C21_NoSideEffect ==
  [][servers' = servers /\ provisioned' = provisioned /\ caddyAddress' = caddyAddress
       /\ UNCHANGED <<syncing, lifecycle, summary>>]_vars
\* The path pattern of the route of a server of PathServers.
ConfiguredPath == servers["srv0"][1].match[1][2].values[1]

\* The rule normalizePath is specified by.
ReferenceNormalize(path) ==
  LET stripped == IF path # <<>> /\ path[Len(path)] = "*"
                  THEN [k \in 1..Len(path) - 1 |-> path[k]] ELSE path
  IN
  CASE stripped = <<"/">> -> <<>>
    [] stripped # <<>> /\ stripped[Len(stripped)] # "/" -> Append(stripped, "/")
    [] OTHER -> stripped

(***************************************************************************)
(* C27  normalizePath follows the reference rule on every pattern: one     *)
(* trailing "*" is stripped, a "/" is appended to what is neither empty    *)
(* nor "/" nor ends with "/", and "/" becomes the empty string. So the     *)
(* five examples, a result that is empty or ends with "/" and is never     *)
(* "/", and idempotence; the path of every endpoint emitted is the         *)
(* normalized pattern of its route.                                        *)
(***************************************************************************)
C27_NormalizePathIsTheReferenceRule ==
  /\ \A x \in rd.endpointMap : x.ep.Path = ReferenceNormalize(ConfiguredPath)
  /\ LET result == normalizePath(ConfiguredPath) IN
       /\ result = ReferenceNormalize(ConfiguredPath)
       /\ result = <<>> \/ result[Len(result)] = "/"
       /\ result # <<"/">>
       /\ normalizePath(result) = result
  /\ normalizePath(PathApiStar) = <<"/", "a", "p", "i", "/">>
  /\ normalizePath(PathApi) = <<"/", "a", "p", "i", "/">>
  /\ normalizePath(PathRoot) = <<>>
  /\ normalizePath(PathAdminStar) = <<"/", "a", "d", "m", "i", "n", "/">>
  /\ normalizePath(<<"/", "*">>) = <<>>

\* An endpoint was emitted under a pattern that lost its wildcard and
\* gained a slash.
C27_Witness ==
  /\ ConfiguredPath = <<"/", "a", "*">>
  /\ \E x \in rd.endpointMap : x.ep.Path = <<"/", "a", "/">>
(***************************************************************************)
(* C26  When the listing of the resources fails at the start of the        *)
(* cleanup pass, the pass reports 0 deleted and 1 error, no DeleteResource *)
(* call is made in the run, the remote resources stay as they are, and     *)
(* SyncResources returns an error.                                         *)
(***************************************************************************)
C26_FailedListingEndsTheCleanup ==
  [][\A p \in Syncers :
       (sy[p].pc = "cleanup" /\ sy'[p] # sy[p] /\ ~LastCall(sy'[p]).ok)
         => /\ LastCall(sy'[p]).op = "GetResources"
            /\ sy'[p].deleted = 0
            /\ sy'[p].deleteErrors = 1
            /\ sy'[p].stale = <<>>
            /\ CallsOf(sy'[p], {"DeleteResource"}) = {}
            /\ resources' = resources
            /\ sy'[p].pc = "done"
            /\ sy'[p].result = "error"
    ]_vars

\* A run whose upsert pass made no error and whose cleanup listing failed,
\* with a stale resource of the target network still in place.
C26_Witness ==
  \E p \in Syncers :
    /\ sy[p].pc = "done" /\ sy[p].result = "error"
    /\ sy[p].errors = 0 /\ sy[p].success > 0
    /\ sy[p].deleted = 0 /\ sy[p].deleteErrors = 1
    /\ CleanupListed(sy[p]) /\ ~LastCall(sy[p]).ok
    /\ \E r \in Range(resources) : r.net = sy[p].networkID /\ r.name \notin DesiredNames

(***************************************************************************)
(* C29  Serialized syncs over mappings with pairwise distinct names never  *)
(* create a resource under a name that a resource of the target network    *)
(* already has.                                                            *)
(***************************************************************************)
C29_NeverCreatesASecondOfAName ==
  [][\A p \in Syncers :
       (Issued(p, "CreateResource") /\ LastCall(sy'[p]).ok)
         => ~\E r \in Range(resources) :
               r.net = sy[p].networkID /\ r.name = mappings[sy[p].i].Name
    ]_vars

\* The same, for mappings without an alias and listings within one page.
C29_ByNameWithinOnePage ==
  [][\A p \in Syncers :
       (Issued(p, "CreateResource") /\ LastCall(sy'[p]).ok
          /\ mappings[sy[p].i].Alias = NoAlias
          /\ resPad + Len(resources) <= ResourcesPageSize)
         => ~\E r \in Range(resources) :
               r.net = sy[p].networkID /\ r.name = mappings[sy[p].i].Name
    ]_vars
(***************************************************************************)
(* C30  Every caddy_address the configuration parser accepts is accepted   *)
(* by validateMapping: the mappings built with the address of a            *)
(* configuration that parsed are not rejected for their address.           *)
(***************************************************************************)
C30_ParsedAddressIsValid ==
  rd.pc = "mapped" => \A k \in 1..Len(mappings) : validateMapping(mappings[k]) = "nil"

\* The same, for the addresses that are IPv4.
C30_ParsedIPv4AddressIsValid ==
  (rd.pc = "mapped" /\ To4(ParseIP(caddyAddress)) # NilIP)
    => \A k \in 1..Len(mappings) : validateMapping(mappings[k]) = "nil"
(***************************************************************************)
(* Vocabulary of the properties of performSync                             *)
(***************************************************************************)
\* The call p has resolved its target network and mappings[i] went through
\* its upsert pass without a failure.
Succeeded(p, i) ==
  /\ sy[p].networkID # EmptyID
  /\ Processed(sy[p], i)
  /\ \A j \in EntriesOf(sy[p], i) : sy[p].calls[j].ok

(***************************************************************************)
(* C24  Two SyncResources invocations over the same network and mapping    *)
(* that run one after the other do not both create: once the first has     *)
(* returned with the mapping synced, the second issues no CreateResource   *)
(* for it. (Invocations that overlap can both create: C24_RaceCreatesTwo.) *)
(***************************************************************************)
C24_SecondOfTwoCreatesNothing ==
  [][\A p, q \in Callers :
       (p # q /\ ps[p].app = ps[q].app /\ ps[p].pc = "returned"
          /\ Issued(q, "CreateResource"))
         => ~Succeeded(p, sy[q].i)
    ]_vars

\* The same, for listings within one page.
C24_SecondOfTwoWithinOnePage ==
  [][\A p, q \in Callers :
       (p # q /\ ps[p].app = ps[q].app /\ ps[p].pc = "returned"
          /\ Issued(q, "CreateResource")
          /\ resPad + Len(resources) <= ResourcesPageSize)
         => ~Succeeded(p, sy[q].i)
    ]_vars

\* Two overlapping invocations of two instances have both created a
\* resource for the first mapping: the network holds two of its name.
C24_RaceCreatesTwo ==
  /\ ps[1].app # ps[2].app
  /\ \A p \in Callers :
       \E j \in EntriesOf(sy[p], 1) : sy[p].calls[j].op = "CreateResource" /\ sy[p].calls[j].ok
  /\ Cardinality({j \in 1..Len(resources) : resources[j].name = mappings[1].Name}) = 2

(***************************************************************************)
(* C25  As stated: when the deadline of a sync passes after its target     *)
(* network was resolved, every mapping is still processed, an enabled      *)
(* cleanup pass counts exactly one error and issues no DeleteResource, and *)
(* SyncResources returns the aggregate of the errors.                      *)
(***************************************************************************)
C25_ExpiryLeavesOneCleanupError ==
  \A p \in Callers :
    (sy[p].pc = "done" /\ ps[p].ctx = "expired" /\ sy[p].networkID # EmptyID)
      => /\ sy[p].success + sy[p].errors = Len(mappings)
         /\ CleanupEnabled =>
              /\ sy[p].deleted = 0
              /\ sy[p].deleteErrors = 1
              /\ CallsOf(sy[p], {"DeleteResource"}) = {}
         /\ (sy[p].result = "error") <=> (sy[p].errors + sy[p].deleteErrors > 0)

(***************************************************************************)
(* C25  As amended: once the deadline of a sync has passed after its       *)
(* target network was resolved, every remote call it makes fails and       *)
(* changes nothing; every remaining mapping is still processed and counts  *)
(* one upsert error if it needed a call; a cleanup listing made after the  *)
(* deadline gives (0 deleted, 1 error) and no DeleteResource; a            *)
(* DeleteResource made after the deadline counts one more cleanup error;   *)
(* and SyncResources returns the aggregate of the errors.                  *)
(***************************************************************************)
C25_ExpiryFailsEveryLaterCall ==
  [][\A p \in Callers :
       (ps[p].ctx = "expired" /\ sy[p].networkID # EmptyID /\ sy'[p] # sy[p])
         => LET s == sy[p]
                t == sy'[p]
                called == Len(t.calls) > Len(s.calls)
            IN
            /\ called => ~LastCall(t).ok
            /\ inventory' = inventory
            /\ s.pc \in {"upsert", "create", "update"} =>
                 /\ t.success + t.errors = s.success + s.errors + 1
                 /\ called => t.errors = s.errors + 1
                 /\ Finished(t) = Finished(s) + 1
            /\ s.pc = "cleanup" =>
                 /\ t.deleted = 0 /\ t.deleteErrors = 1
                 /\ CallsOf(t, {"DeleteResource"}) = {}
                 /\ t.pc = "done" /\ t.result = "error"
            /\ s.pc = "delete" =>
                 /\ LastCall(t).op = "DeleteResource"
                 /\ t.deleteErrors = s.deleteErrors + 1 /\ t.deleted = s.deleted
            /\ t.pc = "done" =>
                 /\ t.success + t.errors = Len(mappings)
                 /\ (t.result = "error") <=> (t.errors + t.deleteErrors > 0)
    ]_vars

\* A sync of two mappings whose deadline passed after the first: one
\* success, one upsert error, one cleanup error, no deletion.
C25_Witness ==
  \E p \in Callers :
    /\ sy[p].pc = "done" /\ ps[p].ctx = "expired" /\ sy[p].networkID # EmptyID
    /\ Len(mappings) = 2 /\ CleanupEnabled
    /\ sy[p].success = 1 /\ sy[p].errors = 1
    /\ \A j \in EntriesOf(sy[p], 1) : sy[p].calls[j].ok
    /\ sy[p].deleted = 0 /\ sy[p].deleteErrors = 1
    /\ sy[p].result = "error"

\* The calls of performSync on the other side of a call, on its instance.
OthersOf(p) == {q \in Callers \ {p} : ps[q].app = ps[p].app}

\* Between Lock and Unlock.
InSync(p) == ps[p].pc = "locked"

(***************************************************************************)
(* C28  Syncs on one TwingateApp are mutually exclusive: a call of         *)
(* performSync runs its SyncResources only while it holds the syncMutex of *)
(* its instance, two calls on one instance never hold it together, no      *)
(* remote call is made while another call on the instance is between its   *)
(* first remote call and its return, and every call that waits for the     *)
(* mutex gets it in the end.                                               *)
(***************************************************************************)
C28_SyncsOfAnInstanceExcludeEachOther ==
  /\ [](\A p \in Callers :
          /\ InSync(p) => apps[ps[p].app].syncMutex = p /\ \A q \in OthersOf(p) : ~InSync(q)
          /\ sy[p].pc \notin {"idle", "done"} => InSync(p))
  /\ [][\A p \in Callers :
          Len(sy'[p].calls) > Len(sy[p].calls)
            => /\ InSync(p)
               /\ \A q \in OthersOf(p) : sy[q].calls = <<>> \/ ps[q].pc = "returned"
       ]_vars
  /\ \A p \in Callers : (ps[p].pc = "waiting") ~> InSync(p)

\* A call waits for the mutex while the other call on the instance, which
\* holds it, has made remote calls.
C28_Witness ==
  \E p, q \in Callers :
    /\ q \in OthersOf(p)
    /\ InSync(p) /\ sy[p].calls # <<>> /\ sy[p].pc # "done"
    /\ ps[q].pc = "waiting"

(***************************************************************************)
(* Vocabulary of the properties of GetSyncSummary                          *)
(***************************************************************************)
\* The name the configuration asks for.
ConfiguredNetworkName ==
  IF remoteNetworkName = "" THEN "Caddy-Managed" ELSE remoteNetworkName

\* The network of that ID exists and has that name.
NetworkIs(id, name) ==
  \E j \in 1..Len(networks) : networks[j].id = id /\ networks[j].name = name

(***************************************************************************)
(* C22  The target network of SyncResources and of GetSyncSummary is the   *)
(* network of the configured name, "Caddy-Managed" when the configured     *)
(* name is empty: both look that name up, the network a sync resolved or   *)
(* created carries it, no network of another name is created, and the      *)
(* summary reports that name and, when the network exists, its ID.         *)
(***************************************************************************)
C22_TargetIsTheConfiguredNetwork ==
  /\ \A p \in Syncers :
       /\ sy[p].pc \notin {"idle", "done"} => sy[p].networkName = ConfiguredNetworkName
       /\ sy[p].networkID # EmptyID => NetworkIs(sy[p].networkID, ConfiguredNetworkName)
  /\ \A j \in 1..Len(networks) :
       networks[j].id >= FirstFreeID => networks[j].name = ConfiguredNetworkName
  /\ summary.pc \in {"network", "mapping"} => summary.networkName = ConfiguredNetworkName
  /\ summary.RemoteNetworkAction # "" =>
       /\ summary.RemoteNetworkName = ConfiguredNetworkName
       /\ (summary.RemoteNetworkAction = "use_existing")
            <=> summary.RemoteNetworkID # EmptyID
       /\ summary.RemoteNetworkID # EmptyID
            => NetworkIs(summary.RemoteNetworkID, ConfiguredNetworkName)

\* With no name configured, a sync has resolved its target and a summary
\* was returned for the same network, "Caddy-Managed".
C22_Witness ==
  /\ remoteNetworkName = ""
  /\ \E p \in Syncers :
       /\ sy[p].networkID # EmptyID
       /\ summary.pc = "done" /\ summary.result = "nil"
       /\ summary.RemoteNetworkAction = "use_existing"
       /\ summary.RemoteNetworkID = sy[p].networkID
       /\ summary.RemoteNetworkName = "Caddy-Managed"

(***************************************************************************)
(* C23  GetSyncSummary classifies every mapping: in a summary that is      *)
(* returned, ResourcesToCreate + ResourcesToUpdate = TotalMappings, the    *)
(* number of the mappings.                                                 *)
(***************************************************************************)
C23_EveryMappingClassified ==
  (summary.pc = "done" /\ summary.result = "nil")
    => /\ summary.TotalMappings = Len(mappings)
       /\ summary.ResourcesToCreate + summary.ResourcesToUpdate = summary.TotalMappings

\* The mappings a returned summary leaves out are those whose lookup failed.
C23_ClassifiedUnlessTheLookupFailed ==
  (summary.pc = "done" /\ summary.result = "nil")
    => /\ summary.TotalMappings = Len(mappings)
       /\ summary.ResourcesToCreate + summary.ResourcesToUpdate
            = summary.TotalMappings
                - Cardinality({j \in 1..Len(summary.calls) : ~summary.calls[j].ok})

\* Every mapping counts as to create when the target network does not exist.
C23_AllToCreateWithoutNetwork ==
  (summary.pc = "done" /\ summary.result = "nil" /\ summary.RemoteNetworkAction = "create")
    => /\ summary.ResourcesToCreate = summary.TotalMappings
       /\ summary.ResourcesToUpdate = 0
       /\ CallsOf(summary, {"GetResources"}) = {}

\* GetSyncSummary reads only: its steps leave the inventory as it is and
\* its calls are listings.
C23_ReadOnly ==
  [][summary' # summary
       => /\ inventory' = inventory
          /\ \A j \in 1..Len(summary'.calls) :
               summary'.calls[j].op \in {"GetRemoteNetworks", "GetResources"}
    ]_vars

\* A summary of two mappings was returned that counts one of them only.
C23_SkippedMapping ==
  /\ summary.pc = "done" /\ summary.result = "nil"
  /\ summary.TotalMappings = 2
  /\ summary.ResourcesToCreate + summary.ResourcesToUpdate = 1
====
